---- MODULE Spec2Model ----
(***************************************************************************)
(* Model of the CLI-agent orchestration cluster of the CodeSpec extension: *)
(*   - CLIExecutionService  (src/src/services/cliExecutionService.ts)      *)
(*   - CLIDetector          (src/src/utils/cliDetector.ts)                 *)
(*   - AgentManager         (src/src/providers/featureTreeProvider.ts)     *)
(*   - ProjectAnalyzer      (src/src/services/projectAnalyzer.ts)          *)
(*   - PromptBuilder        (src/src/constants/prompts.ts)                 *)
(*   - CommandBuilder       (src/src/utils/commandBuilder.ts)              *)
(*                                                                         *)
(* Texts (stdout, stderr, error messages, probe outputs) are sequences of  *)
(* phrases; "text contains phrase" is membership of the phrase in the      *)
(* sequence and concatenation of texts is \o.  Version outputs are         *)
(* sequences of characters, because parseVersion looks inside the words.   *)
(***************************************************************************)
EXTENDS Integers, Sequences, FiniteSets, TLC

VARIABLES
    \* ---- CLIExecutionService, one entry per executeCommand invocation
    pc,               \* "idle" before the call, "running" once the child is spawned
    opts,             \* [showProgress, hasToken] of the invocation
    processId,        \* the identifier generateProcessId returned to it
    activeProcesses,  \* Map<string, ChildProcess>: id -> child handle or Null
    isResolved,       \* the closure flag of executeDirectly
    result,           \* <<r>> once the result promise is settled with r, <<>> while pending
    resolveCalls,     \* number of calls of resolve(...) made by the handlers
    firstEvent,       \* first completion event whose handler ran
    timer,            \* "none" | "armed" | "fired" | "cleared"
    tokenFired,       \* the token handed to executeDirectly has fired its listeners
    callerCancelled,  \* options.cancellationToken was cancelled
    progressCancelled,\* the withProgress token was cancelled
    closed,           \* 'close' was emitted
    closeCode,        \* the code 'close' was emitted with
    errored,          \* 'error' was emitted
    signalled,        \* the child was sent SIGTERM
    stdout,
    stderr,
    \* ---- CLIDetector / AgentManager
    mockMode,
    agents,           \* the local list detectAllAvailableAgents is building
    probed,           \* the subprocess runs made for each entry of agents
    returned,         \* detectAllAvailableAgents has returned agents
    detecting,        \* initializeAgents calls waiting for the detector
    availableAgents,
    selectedAgent,    \* <<agent>>, or <<>> for null
    pendingSwitch,    \* switchAgent calls suspended at showWarningMessage
    fired,            \* events emitted by the handler that ran last
    \* ---- ProjectAnalyzer
    now,              \* Date.now()
    workspace,        \* the file system under each workspace path
    cache,            \* Map<string, CLIProjectContext>: path -> <<object>> or <<>>
    cacheExpiry,      \* Map<string, number>: path -> <<time>> or <<>>
    analysing,        \* analyzeProject calls suspended at await performAnalysis, per path
    allocated,        \* number of context objects performAnalysis has created
    returnedContext,  \* <<object>> the last analyzeProject call returned, else <<>>
    \* ---- a single call of a synchronous method or of analyzeImportantFiles
    args,             \* the arguments of the call
    returnValue,      \* <<>> before the call, <<r>> once it returned or threw
    \* ---- FileService / FeatureTreeProvider
    directory,        \* the .features directory: file name without .md -> <<content>> or <<>>
    creating,         \* the createFeatureFile call of each caller, with its local variables
    data,             \* FeatureTreeProvider.data: the ids of its items
    loading,          \* the loadFeatureFiles calls that have not finished
    \* ---- the handler that ran last: [op, who, ret], all strings
    last

execVars == <<pc, opts, processId, activeProcesses, isResolved, result,
              resolveCalls, firstEvent, timer, tokenFired, callerCancelled,
              progressCancelled, closed, closeCode, errored, signalled, stdout, stderr>>
agentVars == <<mockMode, agents, probed, returned, detecting, availableAgents,
               selectedAgent, pendingSwitch, fired>>
analyzerVars == <<now, workspace, cache, cacheExpiry, analysing, allocated, returnedContext>>
callVars == <<args, returnValue>>
featureVars == <<directory, creating, data, loading>>
vars == <<execVars, agentVars, analyzerVars, callVars, featureVars, last>>

Null == "null"

(***************************************************************************)
(* Bounds                                                                  *)
(***************************************************************************)
MaxOut == 2        \* phrases a child writes to stdout and stderr together
MaxPending == 1    \* switchAgent calls suspended at the prompt at a time
MaxDetecting == 2  \* initializeAgents calls waiting for the detector at a time

Invocations == {"e1", "e2"}
ProcessIds == {"cli_1", "cli_2"}
\* the code argument of 'close': <<n>> for exit code n, <<>> for null (ended by a signal)
ExitCodes == {<<0>>, <<1>>, <<>>}

(***************************************************************************)
(* Texts                                                                   *)
(***************************************************************************)
Contains(text, phrase) == \E k \in 1..Len(text) : text[k] = phrase

\* String.prototype.toLowerCase on a phrase
toLowerCase(p) ==
    CASE p = "Not Authenticated" -> "not authenticated"
      [] p = "LOGIN REQUIRED" -> "login required"
      [] p = "Claude" -> "claude"
      [] p = "CLAUDE" -> "claude"
      [] p = "Google" -> "google"
      [] p = "No credentialed" -> "no credentialed"
      [] p = ".PY" -> ".py"
      [] OTHER -> p

LowerText(text) == [k \in 1..Len(text) |-> toLowerCase(text[k])]

(***************************************************************************)
(* CLIExecutionService                                                     *)
(***************************************************************************)
DataPhrases == {"permission denied", "Not Authenticated", "claude", "CLAUDE", "gcloud", "ok"}
ErrorMessages == {<<"spawn", "ENOENT">>}

\* authErrorPatterns of isAuthenticationError
authErrorPatterns ==
    {"not authenticated", "login required", "authentication failed", "unauthorized",
     "invalid credentials", "access denied", "permission denied", "no credentialed accounts"}

\* /pattern/i.test(output): the comparison ignores case
TestIgnoreCase(pattern, text) == \E k \in 1..Len(text) : toLowerCase(text[k]) = pattern

isAuthenticationError(err, out) ==
    LET output == LowerText(err \o out)
    IN \E pattern \in authErrorPatterns : TestIgnoreCase(pattern, output)

ClaudeAuthMessage == <<"Claude Code authentication required.", "Please run:", "claude auth login">>
GoogleAuthMessage == <<"Google Cloud authentication required.", "Please run:", "gcloud auth login">>
GenericAuthMessage == <<"Authentication required.", "Please authenticate with the CLI tool and try again.">>

getAuthenticationErrorMessage(err, out) ==
    LET output == err \o out
    IN IF Contains(output, "claude") \/ Contains(output, "Claude") THEN ClaudeAuthMessage
       ELSE IF Contains(output, "gcloud") \/ Contains(output, "google") THEN GoogleAuthMessage
       ELSE GenericAuthMessage

CancelledResult(out) ==
    [success |-> FALSE, output |-> out, error |-> <<"Operation was", "cancelled">>, exitCode |-> -1]

TimeoutResult(out) ==
    [success |-> FALSE, output |-> out,
     error |-> <<"Command", "timed out", "after", "${options.timeout}ms">>, exitCode |-> -1]

ErrorResult(out, message) ==
    [success |-> FALSE, output |-> out, error |-> message, exitCode |-> -1]

\* variant: the authentication hint replaces the error text of failed runs only
CloseResultHintOnFailure(code, out, err) ==
    [success |-> (code = <<0>>),
     output |-> out,
     error |-> IF code # <<0>> /\ isAuthenticationError(err, out)
               THEN getAuthenticationErrorMessage(err, out)
               ELSE err,
     exitCode |-> IF code = <<>> THEN 0 ELSE code[1]]

\* the result object built by the 'close' handler
CloseResult(code, out, err) ==
    [success |-> (code = <<0>>),
     output |-> out,
     error |-> IF isAuthenticationError(err, out) THEN getAuthenticationErrorMessage(err, out)
               ELSE err,                          \* stderr || undefined: <<>> is no error text
     exitCode |-> IF code = <<>> THEN 0 ELSE code[1]]          \* code || 0

\* variant: the identifier has no random part and the calls share a timestamp
generateProcessIdSameTimestamp(taken) == "cli_1"

\* `cli_${Date.now()}_${Math.random().toString(36).substr(2, 9)}`: a millisecond
\* timestamp and nine random base-36 digits, taken as an identifier that no
\* earlier call returned
generateProcessId(taken) == CHOOSE id \in ProcessIds : id \notin taken

\* variant: only the first token is listened to
createCombinedCancellationTokenFirstOnly(token1, token2) == {token1}

\* the tokens whose cancellation cancels the token createCombinedCancellationToken returns
createCombinedCancellationToken(token1, token2) ==
    IF token2 = Null THEN {token1} ELSE {token1, token2}

\* the tokens whose cancellation runs cancellationHandler of invocation i
ListenedTokens(o) ==
    IF o.showProgress
    THEN createCombinedCancellationToken("progress", IF o.hasToken THEN "caller" ELSE Null)
    ELSE IF o.hasToken THEN {"caller"} ELSE {}

killProcess(ap, sg, id) ==
    IF ap[id] # Null
    THEN [activeProcesses |-> [ap EXCEPT ![id] = Null],
          signalled |-> [sg EXCEPT ![ap[id]] = TRUE],
          ret |-> TRUE]
    ELSE [activeProcesses |-> ap, signalled |-> sg, ret |-> FALSE]

\* resolve(r): a promise keeps the first value it is resolved with
Resolve(i, r) ==
    /\ isResolved' = [isResolved EXCEPT ![i] = TRUE]
    /\ result' = [result EXCEPT ![i] = IF @ = <<>> THEN <<r>> ELSE @]
    /\ resolveCalls' = [resolveCalls EXCEPT ![i] = @ + 1]

Handled(i, event) ==
    firstEvent' = [firstEvent EXCEPT ![i] = IF @ = Null THEN event ELSE @]

ExecInit ==
    /\ pc = [i \in Invocations |-> "idle"]
    /\ opts = [i \in Invocations |-> [showProgress |-> FALSE, hasToken |-> FALSE]]
    /\ processId = [i \in Invocations |-> Null]
    /\ activeProcesses = [id \in ProcessIds |-> Null]
    /\ isResolved = [i \in Invocations |-> FALSE]
    /\ result = [i \in Invocations |-> <<>>]
    /\ resolveCalls = [i \in Invocations |-> 0]
    /\ firstEvent = [i \in Invocations |-> Null]
    /\ timer = [i \in Invocations |-> "none"]
    /\ tokenFired = [i \in Invocations |-> FALSE]
    /\ callerCancelled = [i \in Invocations |-> FALSE]
    /\ progressCancelled = [i \in Invocations |-> FALSE]
    /\ closed = [i \in Invocations |-> FALSE]
    /\ closeCode = [i \in Invocations |-> <<>>]
    /\ errored = [i \in Invocations |-> FALSE]
    /\ signalled = [i \in Invocations |-> FALSE]
    /\ stdout = [i \in Invocations |-> <<>>]
    /\ stderr = [i \in Invocations |-> <<>>]

\* executeCommand -> (executeWithProgress ->) executeDirectly up to the return of
\* the pending promise: id generated, child spawned and registered, token
\* listener and timer installed
executeCommand(i, showProgress, hasToken) ==
    /\ pc[i] = "idle"
    /\ LET id == generateProcessId({processId[j] : j \in Invocations} \ {Null})
       IN /\ processId' = [processId EXCEPT ![i] = id]
          /\ activeProcesses' = [activeProcesses EXCEPT ![id] = i]
    /\ pc' = [pc EXCEPT ![i] = "running"]
    /\ opts' = [opts EXCEPT ![i] = [showProgress |-> showProgress, hasToken |-> hasToken]]
    /\ timer' = [timer EXCEPT ![i] = "armed"]
    /\ last' = [op |-> "executeCommand", who |-> i, ret |-> Null]
    /\ UNCHANGED <<isResolved, result, resolveCalls, firstEvent, tokenFired, callerCancelled,
                   progressCancelled, closed, closeCode, errored, signalled, stdout, stderr>>
    /\ UNCHANGED <<agentVars, analyzerVars, callVars, featureVars>>

cancellationHandler(i) ==
    /\ Handled(i, "cancelled")
    /\ IF ~isResolved[i]
       THEN LET k == killProcess(activeProcesses, signalled, processId[i])
            IN /\ activeProcesses' = k.activeProcesses
               /\ signalled' = k.signalled
               /\ Resolve(i, CancelledResult(stdout[i]))
       ELSE UNCHANGED <<activeProcesses, signalled, isResolved, result, resolveCalls>>

\* token.cancel() of the caller's token or of the withProgress token
Cancel(i, token) ==
    /\ pc[i] = "running"
    /\ \/ /\ token = "caller"
          /\ opts[i].hasToken
          /\ ~callerCancelled[i]
          /\ callerCancelled' = [callerCancelled EXCEPT ![i] = TRUE]
          /\ UNCHANGED progressCancelled
       \/ /\ token = "progress"
          /\ opts[i].showProgress
          /\ result[i] = <<>>          \* the notification is open until the result is returned
          /\ ~progressCancelled[i]
          /\ progressCancelled' = [progressCancelled EXCEPT ![i] = TRUE]
          /\ UNCHANGED callerCancelled
    /\ IF token \in ListenedTokens(opts[i]) /\ ~tokenFired[i]
       THEN /\ tokenFired' = [tokenFired EXCEPT ![i] = TRUE]
            /\ cancellationHandler(i)
       ELSE UNCHANGED <<tokenFired, firstEvent, activeProcesses, signalled,
                        isResolved, result, resolveCalls>>
    /\ last' = [op |-> "cancel", who |-> i, ret |-> token]
    /\ UNCHANGED <<pc, opts, processId, timer, closed, closeCode, errored, stdout, stderr>>
    /\ UNCHANGED <<agentVars, analyzerVars, callVars, featureVars>>

\* variant: the isResolved test is missing
timeoutHandlerUnguarded(i) ==
    /\ Handled(i, "timeout")
    /\ LET k == killProcess(activeProcesses, signalled, processId[i])
       IN /\ activeProcesses' = k.activeProcesses
          /\ signalled' = k.signalled
          /\ Resolve(i, TimeoutResult(stdout[i]))

\* variant: the child is not terminated
timeoutHandlerNoKill(i) ==
    /\ Handled(i, "timeout")
    /\ IF ~isResolved[i]
       THEN /\ Resolve(i, TimeoutResult(stdout[i]))
            /\ UNCHANGED <<activeProcesses, signalled>>
       ELSE UNCHANGED <<activeProcesses, signalled, isResolved, result, resolveCalls>>

\* the setTimeout callback
timeoutHandler(i) ==
    /\ Handled(i, "timeout")
    /\ IF ~isResolved[i]
       THEN LET k == killProcess(activeProcesses, signalled, processId[i])
            IN /\ activeProcesses' = k.activeProcesses
               /\ signalled' = k.signalled
               /\ Resolve(i, TimeoutResult(stdout[i]))
       ELSE UNCHANGED <<activeProcesses, signalled, isResolved, result, resolveCalls>>

Timeout(i) ==
    /\ pc[i] = "running"
    /\ timer[i] = "armed"
    /\ timer' = [timer EXCEPT ![i] = "fired"]
    /\ timeoutHandler(i)
    /\ last' = [op |-> "timeout", who |-> i, ret |-> Null]
    /\ UNCHANGED <<pc, opts, processId, tokenFired, callerCancelled, progressCancelled,
                   closed, closeCode, errored, stdout, stderr>>
    /\ UNCHANGED <<agentVars, analyzerVars, callVars, featureVars>>

clearTimeout(t) == IF t = "armed" THEN "cleared" ELSE t

\* variant: the registry entry is not deleted
closeHandlerKeepsEntry(i, code) ==
    /\ Handled(i, "close")
    /\ timer' = [timer EXCEPT ![i] = clearTimeout(@)]
    /\ UNCHANGED activeProcesses
    /\ IF ~isResolved[i]
       THEN Resolve(i, CloseResult(code, stdout[i], stderr[i]))
       ELSE UNCHANGED <<isResolved, result, resolveCalls>>

\* process.on('close', code => ...)
closeHandler(i, code) ==
    /\ Handled(i, "close")
    /\ timer' = [timer EXCEPT ![i] = clearTimeout(@)]
    /\ activeProcesses' = [activeProcesses EXCEPT ![processId[i]] = Null]
    /\ IF ~isResolved[i]
       THEN Resolve(i, CloseResult(code, stdout[i], stderr[i]))
       ELSE UNCHANGED <<isResolved, result, resolveCalls>>

Close(i, code) ==
    /\ pc[i] = "running"
    /\ ~closed[i]
    /\ closed' = [closed EXCEPT ![i] = TRUE]
    /\ closeCode' = [closeCode EXCEPT ![i] = code]
    /\ closeHandler(i, code)
    /\ last' = [op |-> "close", who |-> i, ret |-> Null]
    /\ UNCHANGED <<pc, opts, processId, tokenFired, callerCancelled, progressCancelled,
                   errored, signalled, stdout, stderr>>
    /\ UNCHANGED <<agentVars, analyzerVars, callVars, featureVars>>

\* process.on('error', error => ...)
errorHandler(i, message) ==
    /\ Handled(i, "error")
    /\ timer' = [timer EXCEPT ![i] = clearTimeout(@)]
    /\ activeProcesses' = [activeProcesses EXCEPT ![processId[i]] = Null]
    /\ IF ~isResolved[i]
       THEN Resolve(i, ErrorResult(stdout[i], message))
       ELSE UNCHANGED <<isResolved, result, resolveCalls>>

\* the child could not be spawned
Error(i, message) ==
    /\ pc[i] = "running"
    /\ ~errored[i]
    /\ ~closed[i]
    /\ stdout[i] = <<>> /\ stderr[i] = <<>>
    /\ errored' = [errored EXCEPT ![i] = TRUE]
    /\ errorHandler(i, message)
    /\ last' = [op |-> "error", who |-> i, ret |-> Null]
    /\ UNCHANGED <<pc, opts, processId, tokenFired, callerCancelled, progressCancelled,
                   closed, closeCode, signalled, stdout, stderr>>
    /\ UNCHANGED <<agentVars, analyzerVars, callVars, featureVars>>

\* killAllProcesses (dispose calls nothing else)
killAllProcesses ==
    /\ \E id \in ProcessIds : activeProcesses[id] # Null
    /\ signalled' = [i \in Invocations |->
                        signalled[i] \/ \E id \in ProcessIds : activeProcesses[id] = i]
    /\ activeProcesses' = [id \in ProcessIds |-> Null]
    /\ last' = [op |-> "killAllProcesses", who |-> Null, ret |-> Null]
    /\ UNCHANGED <<pc, opts, processId, isResolved, result, resolveCalls, firstEvent, timer,
                   tokenFired, callerCancelled, progressCancelled, closed, closeCode, errored,
                   stdout, stderr>>
    /\ UNCHANGED <<agentVars, analyzerVars, callVars, featureVars>>

\* process.stdout.on('data') / process.stderr.on('data')
Data(i, stream, phrase) ==
    /\ pc[i] = "running"
    /\ ~closed[i]
    /\ ~errored[i]
    /\ Len(stdout[i]) + Len(stderr[i]) < MaxOut
    /\ IF stream = "stdout"
       THEN stdout' = [stdout EXCEPT ![i] = Append(@, phrase)] /\ UNCHANGED stderr
       ELSE stderr' = [stderr EXCEPT ![i] = Append(@, phrase)] /\ UNCHANGED stdout
    /\ last' = [op |-> "data", who |-> i, ret |-> stream]
    /\ UNCHANGED <<pc, opts, processId, activeProcesses, isResolved, result, resolveCalls,
                   firstEvent, timer, tokenFired, callerCancelled, progressCancelled,
                   closed, closeCode, errored, signalled>>
    /\ UNCHANGED <<agentVars, analyzerVars, callVars, featureVars>>

\* the constructor of CLIDetector fixes mockMode; the manager starts empty
AgentInit ==
    /\ mockMode \in BOOLEAN
    /\ agents = <<>>
    /\ probed = <<>>
    /\ returned = FALSE
    /\ detecting = 0
    /\ availableAgents = <<>>
    /\ selectedAgent = <<>>
    /\ pendingSwitch = <<>>
    /\ fired = <<>>

(***************************************************************************)
(* ProjectAnalyzer: the file system it reads and its pure helpers.         *)
(* A workspace is what the file system holds under a workspace path:       *)
(*   root          the directory exists and can be listed                  *)
(*   entries       readdir of the root, in order                           *)
(*   unstatable    entries on which stat rejects                           *)
(*   unreadable    entries on which readFile rejects                       *)
(*   packageJson   <<content>> when package.json parses, <<>> when         *)
(*                 JSON.parse throws on it                                 *)
(*   requirements  the phrases of requirements.txt                         *)
(* A method that can reject yields [threw, value]; value is <<>> or <<v>>. *)
(***************************************************************************)
Paths == {"w1", "w2"}

NoWorkspace == [root |-> FALSE, entries |-> <<>>, unstatable |-> {}, unreadable |-> {},
                packageJson |-> <<>>, requirements |-> <<>>]

Returns(v) == [threw |-> FALSE, value |-> <<v>>]
Throws == [threw |-> TRUE, value |-> <<>>]

includes(list, x) == \E k \in 1..Len(list) : list[k] = x

slice(list, n) == SubSeq(list, 1, IF Len(list) < n THEN Len(list) ELSE n)

CACHE_DURATION == 5 * 60 * 1000

isCacheValidInclusive(cacheKey) ==
    /\ cacheExpiry[cacheKey] # <<>>
    /\ now <= cacheExpiry[cacheKey][1]
    /\ cache[cacheKey] # <<>>

isCacheValid(cacheKey) ==
    /\ cacheExpiry[cacheKey] # <<>>
    /\ now < cacheExpiry[cacheKey][1]
    /\ cache[cacheKey] # <<>>

fileExists(ws, name) == ws.root /\ includes(ws.entries, name)

readTextFile(ws, name) ==
    IF name \in ws.unreadable \/ ~fileExists(ws, name) THEN Throws ELSE Returns(name)

readJsonFile(ws, name) ==
    IF readTextFile(ws, name).threw \/ ws.packageJson = <<>>
    THEN Throws
    ELSE Returns(ws.packageJson[1])

extractDependenciesUnsliced(ws, projectType) ==
    IF projectType \in {"typescript", "javascript"} /\ fileExists(ws, "package.json")
    THEN LET packageJson == readJsonFile(ws, "package.json")
             PackageInfos(names, isDev) ==
                 [k \in 1..Len(names) |-> [name |-> names[k], isDevDependency |-> isDev]]
         IN  IF packageJson.threw THEN Throws
             ELSE Returns(PackageInfos(packageJson.value[1].dependencies, FALSE)
                          \o PackageInfos(packageJson.value[1].devDependencies, TRUE))
    ELSE Returns(<<>>)

extractDependencies(ws, projectType) ==
    IF projectType \in {"typescript", "javascript"} /\ fileExists(ws, "package.json")
    THEN LET packageJson == readJsonFile(ws, "package.json")
             PackageInfos(names, isDev) ==
                 [k \in 1..Len(names) |-> [name |-> names[k], isDevDependency |-> isDev]]
         IN  IF packageJson.threw THEN Throws
             ELSE Returns(slice(PackageInfos(packageJson.value[1].dependencies, FALSE)
                                \o PackageInfos(packageJson.value[1].devDependencies, TRUE), 20))
    ELSE Returns(<<>>)

\* with getDirectoryContentsWithStats (an entry whose stat rejects is left
\* out) and shouldIncludeInStructure
analyzeProjectStructure(ws) ==
    LET startsWithDot(name) == name \in {".git", ".vscode", ".eslintrc.js", ".prettierrc"}
        IsDirectoryName(name) == name \in {"node_modules", ".git", "src", "dist"}
        getDirectoryContentsWithStats ==
            IF ws.root THEN SelectSeq(ws.entries, LAMBDA name : name \notin ws.unstatable)
            ELSE <<>>
        shouldIncludeInStructure(name) ==
            /\ name \notin {"node_modules", ".git", ".vscode", "dist", "build", "__pycache__",
                            ".pytest_cache", "coverage", ".nyc_output"}
            /\ ~startsWithDot(name)
        items == SelectSeq(getDirectoryContentsWithStats, shouldIncludeInStructure)
    IN  slice([k \in 1..Len(items) |->
                 [path |-> items[k],
                  type |-> IF IsDirectoryName(items[k]) THEN "directory" ELSE "file"]], 50)

\* performAnalysis with the detectors it calls, each under its own name
performAnalysis(ws) ==
    LET getDirectoryContents == IF ws.root THEN ws.entries ELSE <<>>
        \* the suffixes, among those detectProjectType tests, a file name ends with
        Suffixes(name) ==
            CASE name = "tsconfig.json"     -> {"tsconfig.json"}
              [] name = "index.ts"          -> {".ts"}
              [] name = "webpack.config.ts" -> {".ts"}
              [] name = "package.json"      -> {"package.json"}
              [] name = "app.js"            -> {".js"}
              [] name = "webpack.config.js" -> {".js"}
              [] name = "requirements.txt"  -> {"requirements.txt"}
              [] name = "main.py"           -> {".py"}
              [] name = "pom.xml"           -> {"pom.xml"}
              [] OTHER                      -> {}
        some(list, suffixes) ==
            \E k \in 1..Len(list) : \E s \in suffixes : s \in Suffixes(list[k])
        detectProjectType ==
            LET files == getDirectoryContents
            IN  IF some(files, {"tsconfig.json", ".ts"}) THEN "typescript"
                ELSE IF some(files, {"package.json", ".js", ".jsx"}) THEN "javascript"
                ELSE IF some(files, {"requirements.txt", "setup.py", ".py"}) THEN "python"
                ELSE IF some(files, {"pom.xml", "build.gradle", ".java"}) THEN "java"
                ELSE "other"
        \* { ...packageJson.dependencies, ...packageJson.devDependencies }
        Spread(packageJson) == packageJson.dependencies \o packageJson.devDependencies
        \* the first of the (key, answer) pairs whose key is among deps
        FirstKey(deps, pairs) ==
            IF \E k \in 1..Len(pairs) : includes(deps, pairs[k][1])
            THEN Returns(pairs[CHOOSE k \in 1..Len(pairs) :
                                 /\ includes(deps, pairs[k][1])
                                 /\ \A j \in 1..(k - 1) : ~includes(deps, pairs[j][1])][2])
            ELSE [threw |-> FALSE, value |-> <<>>]
        detectFramework(projectType) ==
            IF projectType \in {"typescript", "javascript"}
            THEN IF fileExists(ws, "package.json")
                 THEN LET packageJson == readJsonFile(ws, "package.json")
                      IN  IF packageJson.threw THEN Throws
                          ELSE FirstKey(Spread(packageJson.value[1]),
                                        << <<"react", "React">>, <<"vue", "Vue">>,
                                           <<"@angular/core", "Angular">>,
                                           <<"svelte", "Svelte">>, <<"next", "Next.js">>,
                                           <<"nuxt", "Nuxt.js">>, <<"express", "Express">>,
                                           <<"nestjs", "NestJS">> >>)
                 ELSE [threw |-> FALSE, value |-> <<>>]
            ELSE IF projectType = "python"
            THEN IF fileExists(ws, "requirements.txt")
                 THEN IF readTextFile(ws, "requirements.txt").threw THEN Throws
                      ELSE FirstKey(ws.requirements,
                                    << <<"django", "Django">>, <<"flask", "Flask">>,
                                       <<"fastapi", "FastAPI">> >>)
                 ELSE [threw |-> FALSE, value |-> <<>>]
            ELSE [threw |-> FALSE, value |-> <<>>]
        detectPackageManager ==
            LET files == getDirectoryContents
            IN  IF includes(files, "yarn.lock") THEN <<"yarn">>
                ELSE IF includes(files, "pnpm-lock.yaml") THEN <<"pnpm">>
                ELSE IF includes(files, "package-lock.json") THEN <<"npm">>
                ELSE IF includes(files, "package.json") THEN <<"npm">>
                ELSE <<>>
        detectBuildTools ==
            LET files == getDirectoryContents
            IN  (IF includes(files, "webpack.config.js") \/ includes(files, "webpack.config.ts")
                 THEN <<"webpack">> ELSE <<>>)
                \o (IF includes(files, "vite.config.js") \/ includes(files, "vite.config.ts")
                    THEN <<"vite">> ELSE <<>>)
                \o (IF includes(files, "rollup.config.js") THEN <<"rollup">> ELSE <<>>)
                \o (IF includes(files, "gulpfile.js") THEN <<"gulp">> ELSE <<>>)
                \o (IF includes(files, "Gruntfile.js") THEN <<"grunt">> ELSE <<>>)
        \* the requirements.txt half of detectTestFramework
        detectPythonTestFramework ==
            IF fileExists(ws, "requirements.txt")
            THEN IF readTextFile(ws, "requirements.txt").threw THEN Throws
                 ELSE FirstKey(ws.requirements,
                               << <<"pytest", "pytest">>, <<"unittest", "unittest">> >>)
            ELSE [threw |-> FALSE, value |-> <<>>]
        detectTestFramework ==
            IF fileExists(ws, "package.json")
            THEN LET packageJson == readJsonFile(ws, "package.json")
                 IN  IF packageJson.threw THEN Throws
                     ELSE LET found == FirstKey(Spread(packageJson.value[1]),
                                                << <<"jest", "jest">>, <<"mocha", "mocha">>,
                                                   <<"jasmine", "jasmine">>,
                                                   <<"vitest", "vitest">>,
                                                   <<"cypress", "cypress">>,
                                                   <<"playwright", "playwright">> >>)
                          IN  IF found.value # <<>> THEN found ELSE detectPythonTestFramework
            ELSE detectPythonTestFramework
        configPatterns ==
            <<"package.json", "tsconfig.json", "webpack.config.js", "vite.config.js",
              ".eslintrc.js", ".prettierrc", "jest.config.js", "requirements.txt",
              "setup.py", "pom.xml", "build.gradle">>
        \* a pattern whose read rejects is skipped
        findConfigFiles ==
            SelectSeq(configPatterns,
                      LAMBDA pattern : fileExists(ws, pattern) /\ ~readTextFile(ws, pattern).threw)
        projectType == detectProjectType
        framework == detectFramework(projectType)
        testFramework == detectTestFramework
        dependencies == extractDependencies(ws, projectType)
    IN  IF framework.threw \/ testFramework.threw \/ dependencies.threw
        THEN Throws
        ELSE Returns([projectType |-> projectType,
                      framework |-> framework.value,
                      packageManager |-> detectPackageManager,
                      buildTools |-> detectBuildTools,
                      testFramework |-> testFramework.value,
                      dependencies |-> dependencies.value[1],
                      projectStructure |-> analyzeProjectStructure(ws),
                      configFiles |-> findConfigFiles])

\* the analyzer is constructed with empty maps
AnalyzerInit ==
    /\ now = 0
    /\ cache = [p \in Paths |-> <<>>]
    /\ cacheExpiry = [p \in Paths |-> <<>>]
    /\ analysing = [p \in Paths |-> 0]
    /\ allocated = 0
    /\ returnedContext = <<>>

\* no call has been made
CallInit ==
    /\ args = <<>>
    /\ returnValue = <<>>

MaxNumbered == 3   \* the highest number a feature file name is given
MaxLoads == 2      \* loadFeatureFiles calls that have not finished

\* the names (without .md) of the files of the .features directory, in the
\* order of Array.prototype.sort and of localeCompare on their labels
FeatureFiles ==
    <<"my-feature">> \o [k \in 1..MaxNumbered |-> "my-feature-" \o ToString(k)]

Callers == {"c1", "c2"}

\* createFeatureFile has not been called yet
NotCreating == [pc |-> "idle", content |-> "", baseName |-> "", uniqueName |-> "", counter |-> 0]

\* an empty .features directory; the provider is constructed with no data, and
\* its constructor has called loadFeatureFiles
FeatureInit ==
    /\ directory = [f \in {FeatureFiles[k] : k \in DOMAIN FeatureFiles} |-> <<>>]
    /\ creating = [c \in Callers |-> NotCreating]
    /\ data = <<>>
    /\ loading = <<[listed |-> FALSE, failed |-> FALSE, files |-> <<>>]>>

ExecNextOf(i) ==
    \/ \E sp \in BOOLEAN, ht \in BOOLEAN : executeCommand(i, sp, ht)
    \/ \E token \in {"caller", "progress"} : Cancel(i, token)
    \/ Timeout(i)
    \/ \E code \in ExitCodes : Close(i, code)
    \/ \E message \in ErrorMessages : Error(i, message)

\* concurrent invocations; the children write nothing
ExecNext ==
    \/ \E i \in Invocations : ExecNextOf(i)
    \/ killAllProcesses

InitExec ==
    /\ ExecInit
    /\ AgentInit
    /\ AnalyzerInit
    /\ FeatureInit
    /\ workspace = [p \in Paths |-> NoWorkspace]
    /\ CallInit
    /\ ~mockMode
    /\ last = [op |-> "init", who |-> Null, ret |-> Null]

SpecExec == InitExec /\ [][ExecNext]_vars

\* one invocation whose child writes to stdout and stderr
OutputNext ==
    \/ ExecNextOf("e1")
    \/ \E stream \in {"stdout", "stderr"}, phrase \in DataPhrases : Data("e1", stream, phrase)
    \/ killAllProcesses

SpecOutput == InitExec /\ [][OutputNext]_vars

(***************************************************************************)
(* CLIDetector                                                             *)
(***************************************************************************)
SUPPORTED_AGENTS ==
    << [name |-> "claude-code", displayName |-> "Claude Code", command |-> "claude",
        versionFlag |-> "--version", authCheckCommand |-> "auth status",
        supportedFeatures |-> <<"questionnaire", "planning", "codegen", "analysis">>],
       [name |-> "gemini-cli", displayName |-> "Gemini CLI", command |-> "gcloud",
        versionFlag |-> "--version", authCheckCommand |-> "auth list",
        supportedFeatures |-> <<"questionnaire", "planning", "codegen">>] >>

Digits == {"0", "1", "2", "3", "4", "5", "6", "7", "8", "9"}
Whitespace == {" ", "\n"}
UnknownVersion == <<"Unknown">>
MockVersion == <<"1.0.0-mock">>

\* what a version run prints (characters) and what an auth run prints (phrases)
VersionOutputs ==
    { <<"v", "1", ".", "2", ".", "3", "\n">>, <<"o", "k", "\n", "1", ".", "2">> }
AuthOutputs == { <<"@">>, <<"Not Authenticated">>, <<"No credentialed", "@">> }
FailureKinds == {"exit", "spawn", "timeout"}

\* the ways one cp.exec run can end: error set (rejects) or stdout delivered
Runs(kinds, outputs) ==
    [status : kinds, out : {<<>>}] \cup [status : {"ok"}, out : outputs]
NotRun == [status |-> "skipped", out |-> <<>>]

\* the three runs of detectAgent; the later two are made only after the first succeeded
Probes(kinds) ==
    {p \in [check : Runs(kinds, VersionOutputs),
            version : Runs(kinds, VersionOutputs) \cup {NotRun},
            auth : Runs(kinds, AuthOutputs) \cup {NotRun}] :
        IF p.check.status = "ok"
        THEN p.version # NotRun /\ p.auth # NotRun
        ELSE p.version = NotRun /\ p.auth = NotRun}
NoProbe == [check |-> NotRun, version |-> NotRun, auth |-> NotRun]

RECURSIVE DropLeading(_)
DropLeading(str) ==
    IF str # <<>> /\ Head(str) \in Whitespace THEN DropLeading(Tail(str)) ELSE str

RECURSIVE DropTrailing(_)
DropTrailing(str) ==
    IF str # <<>> /\ str[Len(str)] \in Whitespace
    THEN DropTrailing(SubSeq(str, 1, Len(str) - 1))
    ELSE str

\* String.prototype.trim
trim(str) == DropTrailing(DropLeading(str))

\* length of the run of digits of str that starts at position k
RECURSIVE DigitRun(_, _)
DigitRun(str, k) ==
    IF k <= Len(str) /\ str[k] \in Digits THEN 1 + DigitRun(str, k + 1) ELSE 0

\* length of the match of /(\d+\.\d+\.\d+)/ that starts at position k, 0 if none
MatchLength(str, k) ==
    LET a == DigitRun(str, k)
        b == DigitRun(str, k + a + 1)
        c == DigitRun(str, k + a + b + 2)
    IN IF /\ a > 0
          /\ k + a <= Len(str) /\ str[k + a] = "."
          /\ b > 0
          /\ k + a + b + 1 <= Len(str) /\ str[k + a + b + 1] = "."
          /\ c > 0
       THEN a + b + c + 2
       ELSE 0

\* output.split('\n')[0]
FirstLine(str) ==
    LET breaks == {k \in 1..Len(str) : str[k] = "\n"}
    IN IF breaks = {} THEN str
       ELSE SubSeq(str, 1, (CHOOSE k \in breaks : \A j \in breaks : k <= j) - 1)

\* variant: without a match the whole output is the version
parseVersionWholeOutput(output) ==
    LET starts == {k \in 1..Len(output) : MatchLength(output, k) > 0}
    IN IF starts # {}
       THEN LET k == CHOOSE x \in starts : \A y \in starts : x <= y
            IN SubSeq(output, k, k + MatchLength(output, k) - 1)
       ELSE output

parseVersion(output) ==
    LET starts == {k \in 1..Len(output) : MatchLength(output, k) > 0}
    IN IF starts # {}
       THEN LET k == CHOOSE x \in starts : \A y \in starts : x <= y
            IN SubSeq(output, k, k + MatchLength(output, k) - 1)
       ELSE FirstLine(output)

parseAuthenticationStatus(command, output) ==
    IF command = "claude"
    THEN /\ ~Contains(LowerText(output), "not authenticated")
         /\ ~Contains(LowerText(output), "login required")
    ELSE IF command = "gcloud"
    THEN Contains(output, "@") /\ ~Contains(LowerText(output), "no credentialed")
    ELSE FALSE

\* variant: the outcome of the run is not looked at
checkCommandIgnoresError(run) == TRUE

checkCommand(run) == run.status = "ok"

getVersion(run) ==
    IF run.status = "ok" THEN parseVersion(trim(run.out)) ELSE UnknownVersion

checkAuthentication(command, run) ==
    IF run.status = "ok" THEN parseAuthenticationStatus(command, run.out) ELSE FALSE

\* variant: the fabricated status is authenticated but not available
createMockAgentUnavailable(config) ==
    [name |-> config.name, displayName |-> config.displayName, command |-> config.command,
     version |-> MockVersion, isAvailable |-> FALSE, isAuthenticated |-> TRUE,
     supportedFeatures |-> config.supportedFeatures]

createMockAgent(config) ==
    [name |-> config.name, displayName |-> config.displayName, command |-> config.command,
     version |-> MockVersion, isAvailable |-> TRUE, isAuthenticated |-> TRUE,
     supportedFeatures |-> config.supportedFeatures]

detectAgent(config, mock, probe) ==
    IF mock THEN createMockAgent(config)
    ELSE LET isAvailable == checkCommand(probe.check)
         IN [name |-> config.name, displayName |-> config.displayName,
             command |-> config.command,
             version |-> IF isAvailable THEN getVersion(probe.version) ELSE UnknownVersion,
             isAvailable |-> isAvailable,
             isAuthenticated |-> IF isAvailable /\ config.authCheckCommand # Null
                                 THEN checkAuthentication(config.command, probe.auth)
                                 ELSE FALSE,
             supportedFeatures |-> config.supportedFeatures]

\* variant: a tool that is not available is left out of the list
DetectLoopBodyDropsUnavailable(list, config, mock, probe) ==
    IF detectAgent(config, mock, probe).isAvailable
    THEN Append(list, detectAgent(config, mock, probe))
    ELSE list

\* one iteration of the loop of detectAllAvailableAgents (detectAgent catches
\* every failure of its runs, so the catch branch of the loop is never entered)
DetectLoopBody(list, config, mock, probe) ==
    Append(list, detectAgent(config, mock, probe))

\* the whole loop, given the runs of every descriptor
RECURSIVE DetectLoop(_, _, _, _)
DetectLoop(list, k, mock, probes) ==
    IF k > Len(SUPPORTED_AGENTS) THEN list
    ELSE DetectLoop(DetectLoopBody(list, SUPPORTED_AGENTS[k], mock, probes[k]),
                    k + 1, mock, probes)

detectAllAvailableAgents(mock, probes) == DetectLoop(<<>>, 1, mock, probes)

ProbesFor(mock, kinds) == IF mock THEN {NoProbe} ELSE Probes(kinds)

\* a call of detectAllAvailableAgents starts with an empty list
DetectStart ==
    /\ agents = <<>> => returned
    /\ agents' = <<>>
    /\ probed' = <<>>
    /\ returned' = FALSE
    /\ last' = [op |-> "detectAllAvailableAgents", who |-> Null, ret |-> Null]
    /\ UNCHANGED <<mockMode, detecting, availableAgents, selectedAgent, pendingSwitch, fired>>
    /\ UNCHANGED <<execVars, analyzerVars, callVars, featureVars>>

\* one iteration of the loop: the runs for the next descriptor end
DetectAgentStep ==
    /\ ~returned
    /\ Len(probed) < Len(SUPPORTED_AGENTS)
    /\ \E probe \in ProbesFor(mockMode, FailureKinds) :
          /\ agents' = DetectLoopBody(agents, SUPPORTED_AGENTS[Len(probed) + 1], mockMode, probe)
          /\ probed' = Append(probed, probe)
    /\ last' = [op |-> "detectAgent", who |-> SUPPORTED_AGENTS[Len(probed) + 1].name, ret |-> Null]
    /\ UNCHANGED <<mockMode, returned, detecting, availableAgents, selectedAgent,
                   pendingSwitch, fired>>
    /\ UNCHANGED <<execVars, analyzerVars, callVars, featureVars>>

DetectReturn ==
    /\ ~returned
    /\ Len(probed) = Len(SUPPORTED_AGENTS)
    /\ returned' = TRUE
    /\ last' = [op |-> "return", who |-> Null, ret |-> Null]
    /\ UNCHANGED <<mockMode, agents, probed, detecting, availableAgents, selectedAgent,
                   pendingSwitch, fired>>
    /\ UNCHANGED <<execVars, analyzerVars, callVars, featureVars>>

DetectNext == DetectStart \/ DetectAgentStep \/ DetectReturn

InitDetect ==
    /\ ExecInit
    /\ AgentInit
    /\ AnalyzerInit
    /\ FeatureInit
    /\ workspace = [p \in Paths |-> NoWorkspace]
    /\ CallInit
    /\ last = [op |-> "init", who |-> Null, ret |-> Null]

SpecDetect == InitDetect /\ [][DetectNext]_vars


(***************************************************************************)
(* AgentManager                                                            *)
(***************************************************************************)
AgentNames == {SUPPORTED_AGENTS[k].name : k \in 1..Len(SUPPORTED_AGENTS)} \cup {"unknown"}
PromptAnswers == {"Continue", "Cancel", "dismissed"}

Elements(list) == {list[k] : k \in 1..Len(list)}

\* Array.prototype.find: <<first element of list that is in accepted>>, or <<>>
find(list, accepted) ==
    LET hits == {k \in 1..Len(list) : list[k] \in accepted}
    IN IF hits = {} THEN <<>>
       ELSE <<list[CHOOSE k \in hits : \A j \in hits : k <= j]>>

\* the selection initializeAgents makes in a snapshot
AutoSelect(snapshot) ==
    LET authenticatedAgent ==
            find(snapshot, {a \in Elements(snapshot) : a.isAvailable /\ a.isAuthenticated})
        availableAgent == find(snapshot, {a \in Elements(snapshot) : a.isAvailable})
    IN IF authenticatedAgent # <<>> THEN authenticatedAgent ELSE availableAgent

\* initializeAgents / refreshAgents up to the await of the detector
initializeAgents ==
    /\ detecting < MaxDetecting
    /\ detecting' = detecting + 1
    /\ fired' = <<>>
    /\ last' = [op |-> "initializeAgents", who |-> Null, ret |-> Null]
    /\ UNCHANGED <<mockMode, agents, probed, returned, availableAgents, selectedAgent,
                   pendingSwitch>>
    /\ UNCHANGED <<execVars, analyzerVars, callVars, featureVars>>

\* the lists detectAllAvailableAgents can return, over all outcomes of its runs
RealSnapshots ==
    {detectAllAvailableAgents(FALSE, probes) :
        probes \in [1..Len(SUPPORTED_AGENTS) -> Probes({"exit"})]}
MockSnapshots ==
    {detectAllAvailableAgents(TRUE, [k \in 1..Len(SUPPORTED_AGENTS) |-> NoProbe])}
Snapshots(mock) == IF mock THEN MockSnapshots ELSE RealSnapshots

\* variant: the selection-changed event is fired only when the selection changed
InitializeAgentsResumeFiresOnChange ==
    /\ detecting > 0
    /\ detecting' = detecting - 1
    /\ \E snapshot \in Snapshots(mockMode) :
          /\ availableAgents' = snapshot
          /\ selectedAgent' = AutoSelect(snapshot)
    /\ fired' = IF selectedAgent' = selectedAgent
                THEN <<"onAgentsRefreshed">>
                ELSE <<"onAgentsRefreshed", "onAgentChanged">>
    /\ last' = [op |-> "initializeAgents.resume", who |-> Null, ret |-> Null]
    /\ UNCHANGED <<mockMode, agents, probed, returned, pendingSwitch>>
    /\ UNCHANGED <<execVars, analyzerVars, callVars, featureVars>>

\* the detector returns: snapshot stored, selection made, both events fired
InitializeAgentsResume ==
    /\ detecting > 0
    /\ detecting' = detecting - 1
    /\ \E snapshot \in Snapshots(mockMode) :
          /\ availableAgents' = snapshot
          /\ selectedAgent' = AutoSelect(snapshot)
    /\ fired' = <<"onAgentsRefreshed", "onAgentChanged">>
    /\ last' = [op |-> "initializeAgents.resume", who |-> Null, ret |-> Null]
    /\ UNCHANGED <<mockMode, agents, probed, returned, pendingSwitch>>
    /\ UNCHANGED <<execVars, analyzerVars, callVars, featureVars>>

\* variant: the availability of the agent is not tested
switchAgentAnyAgent(agentName) ==
    LET agent == find(availableAgents,
                      {a \in Elements(availableAgents) : a.name = agentName})
    IN /\ IF agent = <<>>
          THEN /\ last' = [op |-> "switchAgent", who |-> agentName, ret |-> "false"]
               /\ fired' = <<>>
               /\ UNCHANGED <<selectedAgent, pendingSwitch>>
          ELSE /\ selectedAgent' = agent
               /\ fired' = <<"onAgentChanged">>
               /\ last' = [op |-> "switchAgent", who |-> agentName, ret |-> "true"]
               /\ UNCHANGED pendingSwitch
       /\ UNCHANGED <<mockMode, agents, probed, returned, detecting, availableAgents>>
       /\ UNCHANGED <<execVars, analyzerVars, callVars, featureVars>>

\* switchAgent up to its return or to the await of showWarningMessage
switchAgent(agentName) ==
    LET agent == find(availableAgents,
                      {a \in Elements(availableAgents) : a.name = agentName})
    IN /\ IF agent = <<>> \/ ~agent[1].isAvailable
          THEN /\ last' = [op |-> "switchAgent", who |-> agentName, ret |-> "false"]
               /\ fired' = <<>>
               /\ UNCHANGED <<selectedAgent, pendingSwitch>>
          ELSE IF ~agent[1].isAuthenticated
          THEN /\ Len(pendingSwitch) < MaxPending
               /\ pendingSwitch' = Append(pendingSwitch, agent[1])
               /\ last' = [op |-> "switchAgent", who |-> agentName, ret |-> "pending"]
               /\ fired' = <<>>
               /\ UNCHANGED selectedAgent
          ELSE /\ selectedAgent' = agent
               /\ fired' = <<"onAgentChanged">>
               /\ last' = [op |-> "switchAgent", who |-> agentName, ret |-> "true"]
               /\ UNCHANGED pendingSwitch
       /\ UNCHANGED <<mockMode, agents, probed, returned, detecting, availableAgents>>
       /\ UNCHANGED <<execVars, analyzerVars, callVars, featureVars>>

\* showWarningMessage is answered: the suspended switchAgent call continues
SwitchAgentResume(k, answer) ==
    /\ k \in 1..Len(pendingSwitch)
    /\ pendingSwitch' = SubSeq(pendingSwitch, 1, k - 1)
                            \o SubSeq(pendingSwitch, k + 1, Len(pendingSwitch))
    /\ IF answer # "Continue"
       THEN /\ last' = [op |-> "switchAgent.resume", who |-> pendingSwitch[k].name,
                        ret |-> "false"]
            /\ fired' = <<>>
            /\ UNCHANGED selectedAgent
       ELSE /\ selectedAgent' = <<pendingSwitch[k]>>
            /\ fired' = <<"onAgentChanged">>
            /\ last' = [op |-> "switchAgent.resume", who |-> pendingSwitch[k].name,
                        ret |-> "true"]
    /\ UNCHANGED <<mockMode, agents, probed, returned, detecting, availableAgents>>
    /\ UNCHANGED <<execVars, analyzerVars, callVars, featureVars>>

AgentsNext ==
    \/ initializeAgents
    \/ InitializeAgentsResume
    \/ \E agentName \in AgentNames : switchAgent(agentName)
    \/ \E k \in 1..MaxPending, answer \in PromptAnswers : SwitchAgentResume(k, answer)

InitAgents ==
    /\ ExecInit
    /\ AgentInit
    /\ AnalyzerInit
    /\ FeatureInit
    /\ workspace = [p \in Paths |-> NoWorkspace]
    /\ CallInit
    /\ last = [op |-> "init", who |-> Null, ret |-> Null]

SpecAgents == InitAgents /\ [][AgentsNext]_vars

(***************************************************************************)
(* ProjectAnalyzer: analyzeProject and clearCache                          *)
(* (src/src/services/projectAnalyzer.ts).  A context object is             *)
(* [id, value]: id tells apart two objects with the same content.          *)
(***************************************************************************)
MaxObjects == 3    \* recomputations started, finished or not
MaxPeriods == 2    \* cache periods the clock runs through
MaxDeps == 21      \* dependencies a manifest declares in each of its two tables
MaxEntries == 51   \* entries of a workspace root besides the well-known ones

\* the instants at which the clock is read
Instants == {t \in {k * CACHE_DURATION + e : k \in 0..MaxPeriods, e \in {-1, 0, 1}} : t >= 0}

\* what the file system can hold under a workspace path
Workspaces ==
    LET Names(n) == [k \in 1..n |-> ToString(k)]
        PackageJsons ==
            {<<>>} \cup {<<[dependencies |-> d, devDependencies |-> dd]>> :
                            d \in {<<"react">>, Names(MaxDeps - 1), Names(MaxDeps)},
                            dd \in {<<>>, <<"jest">>}}
        Listings ==
            {known \o Names(n) :
                known \in {<<>>, <<"package.json">>, <<"app.js">>, <<"pom.xml">>,
                           <<"requirements.txt", "main.py">>,
                           <<"tsconfig.json", ".git", "package.json", "node_modules", "src">>},
                n \in {0, MaxEntries}}
    IN  [root : BOOLEAN, entries : Listings, unstatable : {{}, {"src"}},
         unreadable : {{}, {"package.json"}, {"requirements.txt"}},
         packageJson : PackageJsons, requirements : {<<>>, <<"django", "pytest">>}]

analyzeProject(workspacePath) ==
    /\ IF isCacheValid(workspacePath)
       THEN /\ returnedContext' = cache[workspacePath]
            /\ last' = [op |-> "analyzeProject", who |-> workspacePath, ret |-> "cached"]
            /\ UNCHANGED analysing
       ELSE /\ allocated + analysing["w1"] + analysing["w2"] < MaxObjects
            /\ analysing' = [analysing EXCEPT ![workspacePath] = @ + 1]
            /\ returnedContext' = <<>>
            /\ last' = [op |-> "analyzeProject", who |-> workspacePath, ret |-> "pending"]
    /\ UNCHANGED <<now, workspace, cache, cacheExpiry, allocated>>
    /\ UNCHANGED <<execVars, agentVars, callVars, featureVars>>

\* performAnalysis settles and analyzeProject runs on from its await
AnalyzeProjectResume(workspacePath) ==
    /\ analysing[workspacePath] > 0
    /\ analysing' = [analysing EXCEPT ![workspacePath] = @ - 1]
    /\ LET analysis == performAnalysis(workspace[workspacePath])
           object == [id |-> allocated + 1, value |-> analysis.value[1]]
       IN  IF analysis.threw
           THEN /\ returnedContext' = <<>>
                /\ last' = [op |-> "analyzeProjectResume", who |-> workspacePath, ret |-> "throws"]
                /\ UNCHANGED <<cache, cacheExpiry, allocated>>
           ELSE /\ cache' = [cache EXCEPT ![workspacePath] = <<object>>]
                /\ cacheExpiry' = [cacheExpiry EXCEPT ![workspacePath] = <<now + CACHE_DURATION>>]
                /\ allocated' = allocated + 1
                /\ returnedContext' = <<object>>
                /\ last' = [op |-> "analyzeProjectResume", who |-> workspacePath, ret |-> "returns"]
    /\ UNCHANGED <<now, workspace>>
    /\ UNCHANGED <<execVars, agentVars, callVars, featureVars>>

\* clearCache leaving the expiries in place
clearCacheObjectsOnly ==
    /\ cache' = [p \in Paths |-> <<>>]
    /\ last' = [op |-> "clearCache", who |-> Null, ret |-> Null]
    /\ UNCHANGED <<now, workspace, cacheExpiry, analysing, allocated, returnedContext>>
    /\ UNCHANGED <<execVars, agentVars, callVars, featureVars>>

clearCache ==
    /\ cache' = [p \in Paths |-> <<>>]
    /\ cacheExpiry' = [p \in Paths |-> <<>>]
    /\ last' = [op |-> "clearCache", who |-> Null, ret |-> Null]
    /\ UNCHANGED <<now, workspace, analysing, allocated, returnedContext>>
    /\ UNCHANGED <<execVars, agentVars, callVars, featureVars>>

\* time passes
Tick(t) ==
    /\ t > now
    /\ now' = t
    /\ last' = [op |-> "tick", who |-> Null, ret |-> Null]
    /\ UNCHANGED <<workspace, cache, cacheExpiry, analysing, allocated, returnedContext>>
    /\ UNCHANGED <<execVars, agentVars, callVars, featureVars>>

CacheNext ==
    \/ \E workspacePath \in Paths : analyzeProject(workspacePath)
    \/ \E workspacePath \in Paths : AnalyzeProjectResume(workspacePath)
    \/ clearCache
    \/ \E t \in Instants : Tick(t)

\* two paths, under each a sound project or one whose manifest does not parse
InitCache ==
    /\ ExecInit
    /\ AgentInit
    /\ ~mockMode
    /\ AnalyzerInit
    /\ FeatureInit
    /\ workspace \in
          [Paths -> {[root |-> TRUE, entries |-> <<"package.json", "app.js">>,
                      unstatable |-> {}, unreadable |-> {}, packageJson |-> pj,
                      requirements |-> <<>>] :
                        pj \in {<<>>, <<[dependencies |-> <<"react">>,
                                         devDependencies |-> <<>>]>>}}]
    /\ CallInit
    /\ last = [op |-> "init", who |-> Null, ret |-> Null]

SpecCache == InitCache /\ [][CacheNext]_vars

AnalysisNext ==
    \/ analyzeProject("w1")
    \/ AnalyzeProjectResume("w1")

\* one path, every kind of workspace under it
InitAnalysis ==
    /\ ExecInit
    /\ AgentInit
    /\ ~mockMode
    /\ AnalyzerInit
    /\ FeatureInit
    /\ workspace \in {[p \in Paths |-> IF p = "w1" THEN ws ELSE NoWorkspace] : ws \in Workspaces}
    /\ CallInit
    /\ last = [op |-> "init", who |-> Null, ret |-> Null]

SpecAnalysis == InitAnalysis /\ [][AnalysisNext]_vars

(***************************************************************************)
(* ProjectAnalyzer.analyzeImportantFiles.  A disk gives, for each path,    *)
(*   exists      fs.access resolves                                        *)
(*   statError   <<message>> when fs.stat rejects, else <<>>               *)
(*   size        stats.size                                                *)
(*   readError   <<message>> when fs.readFile rejects, else <<>>           *)
(*   content     the lines of the file                                     *)
(* Texts are sequences of phrases; lastModified is left out of an entry.   *)
(* A call of a method without state is the record args of its arguments,   *)
(* args.method naming the method, and leaves its result in returnValue.    *)
(***************************************************************************)
MaxFiles == 2      \* length of the list handed to analyzeImportantFiles

ImportantPaths == {"src/a.ts", "lib/B.PY", "c.json"}

detectFileLanguage(filePath) ==
    LET \* path.extname
        extname == CASE filePath = "src/a.ts" -> ".ts"
                     [] filePath = "lib/B.PY" -> ".PY"
                     [] filePath = "c.json"   -> ".json"
                     [] OTHER                 -> ""
        languageMap ==
            [ext \in {".ts", ".tsx", ".js", ".jsx", ".py", ".java", ".cpp", ".c", ".cs",
                      ".php", ".rb", ".go", ".rs", ".kt", ".swift", ".vue", ".svelte",
                      ".html", ".css", ".scss", ".sass", ".less", ".json", ".xml", ".yaml",
                      ".yml", ".md", ".txt", ".sh", ".bat", ".ps1"} |->
                CASE ext \in {".ts", ".tsx"} -> "typescript"
                  [] ext \in {".js", ".jsx"} -> "javascript"
                  [] ext = ".py"    -> "python"
                  [] ext = ".cs"    -> "csharp"
                  [] ext = ".rb"    -> "ruby"
                  [] ext = ".rs"    -> "rust"
                  [] ext = ".kt"    -> "kotlin"
                  [] ext \in {".yaml", ".yml"} -> "yaml"
                  [] ext = ".md"    -> "markdown"
                  [] ext = ".txt"   -> "text"
                  [] ext = ".sh"    -> "shell"
                  [] ext = ".bat"   -> "batch"
                  [] ext = ".ps1"   -> "powershell"
                  [] ext = ".java"  -> "java"
                  [] ext = ".cpp"   -> "cpp"
                  [] ext = ".c"     -> "c"
                  [] ext = ".php"   -> "php"
                  [] ext = ".go"    -> "go"
                  [] ext = ".swift" -> "swift"
                  [] ext = ".vue"   -> "vue"
                  [] ext = ".svelte" -> "svelte"
                  [] ext = ".html"  -> "html"
                  [] ext = ".css"   -> "css"
                  [] ext = ".scss"  -> "scss"
                  [] ext = ".sass"  -> "sass"
                  [] ext = ".less"  -> "less"
                  [] ext = ".json"  -> "json"
                  [] ext = ".xml"   -> "xml"]
        extension == toLowerCase(extname)
    IN  IF extension \in DOMAIN languageMap THEN languageMap[extension] ELSE "text"

generateFileSummary(lines, filePath) ==
    LET \* path.basename
        basename == CASE filePath = "src/a.ts" -> "a.ts"
                      [] filePath = "lib/B.PY" -> "B.PY"
                      [] OTHER                 -> filePath
        \* the prefix, among those tested, the trimmed line starts with
        LinePrefix(line) ==
            CASE line = "import x from 'y'"       -> "import "
              [] line = "export function g() {"   -> "export "
              [] line = "  from m import n"       -> "from "
              [] line = "def h():"                -> "def "
              [] line = "class K:"                -> "class "
              [] OTHER                            -> ""
        \* line.includes('function ') || line.includes('=>')
        \*     || line.match(/^\s*\w+\s*\(.*\)\s*{/)
        IsFunctionLine(line) ==
            line \in {"export function g() {", "const f = () => 1", "run(a) {"}
        LinesWithPrefix(prefixes) ==
            Cardinality({k \in 1..Len(lines) : LinePrefix(lines[k]) \in prefixes})
        \* ", <n> <what>" when n > 0
        Part(n, what) == IF n > 0 THEN <<ToString(n), what>> ELSE <<>>
        \* Object.keys(JSON.parse(content)).length: <<n>>, or <<>> when either throws
        TopLevelKeys ==
            CASE lines = <<"{", "\"a\": 1", "}">> -> <<1>>
              [] lines = <<"{}">>                 -> <<0>>
              [] OTHER                            -> <<>>
        language == detectFileLanguage(filePath)
    IN  <<basename, ToString(Len(lines)), "lines">>
        \o (IF language \in {"typescript", "javascript"}
            THEN Part(LinesWithPrefix({"import "}), "imports")
                 \o Part(LinesWithPrefix({"export "}), "exports")
                 \o Part(Cardinality({k \in 1..Len(lines) : IsFunctionLine(lines[k])}),
                         "functions")
            ELSE IF language = "python"
            THEN Part(LinesWithPrefix({"import ", "from "}), "imports")
                 \o Part(LinesWithPrefix({"class "}), "classes")
                 \o Part(LinesWithPrefix({"def "}), "functions")
            ELSE IF language = "json"
            THEN (IF TopLevelKeys # <<>>
                  THEN <<ToString(TopLevelKeys[1]), "top-level properties">>
                  ELSE <<"invalid JSON">>)
            ELSE <<>>)

maxFileSize == 10 * 1024

MissingFile == [exists |-> FALSE, statError |-> <<>>, size |-> 0, readError |-> <<>>,
                content |-> <<"">>]

\* the calls of analyzeImportantFiles: a list of up to MaxFiles paths and what
\* the disk holds under each path
FileCalls ==
    LET MainContent(filePath) ==
            CASE filePath = "src/a.ts" -> <<"import x from 'y'", "export function g() {",
                                            "const f = () => 1", "}">>
              [] filePath = "lib/B.PY" -> <<"import os", "  from m import n", "class K:",
                                            "def h():">>
              [] OTHER                 -> <<"{", "\"a\": 1", "}">>
        FileStates(filePath) ==
            {MissingFile}
            \cup {[exists |-> TRUE, statError |-> <<>>, size |-> sc[1], readError |-> <<>>,
                   content |-> sc[2]] :
                     sc \in {<<0, <<"">> >>, <<4, <<"{">> >>,
                             <<maxFileSize, MainContent(filePath)>>,
                             <<maxFileSize + 1, MainContent(filePath)>>}}
            \cup {[exists |-> TRUE, statError |-> <<"EACCES">>, size |-> 0,
                   readError |-> <<>>, content |-> <<"">>]}
            \cup {[exists |-> TRUE, statError |-> <<>>, size |-> s,
                   readError |-> <<"EISDIR">>, content |-> <<"">>] :
                     s \in {maxFileSize, maxFileSize + 1}}
        Disks == {disk \in [ImportantPaths -> UNION {FileStates(f) : f \in ImportantPaths}] :
                     \A f \in ImportantPaths : disk[f] \in FileStates(f)}
        FileLists == UNION {[1..n -> ImportantPaths] : n \in 0..MaxFiles}
    IN  [method : {"analyzeImportantFiles"}, files : FileLists, disk : Disks]

\* one pass of the loop body: the entries it pushes
analyzeImportantFileDropsErrors(filePath, disk) ==
    LET file == disk[filePath]
    IN  IF ~file.exists THEN <<>>
        ELSE IF file.statError # <<>> THEN <<>>
        ELSE IF file.size > maxFileSize
        THEN << [path |-> filePath,
                 content |-> <<"[File too large:", ToString(file.size),
                               "bytes - content not analyzed]">>,
                 size |-> file.size,
                 language |-> detectFileLanguage(filePath),
                 summary |-> <<"File too large for analysis">>] >>
        ELSE IF file.readError # <<>> THEN <<>>
        ELSE << [path |-> filePath,
                 content |-> file.content,
                 size |-> file.size,
                 language |-> detectFileLanguage(filePath),
                 summary |-> generateFileSummary(file.content, filePath)] >>

analyzeImportantFile(filePath, disk) ==
    LET file == disk[filePath]
        \* the catch block of the loop body
        ErrorEntry(message) ==
            [path |-> filePath,
             content |-> <<"[Error reading file:", message, "]">>,
             size |-> 0,
             language |-> detectFileLanguage(filePath),
             summary |-> <<"Error reading file">>]
    IN  IF ~file.exists THEN <<>>
        ELSE IF file.statError # <<>> THEN <<ErrorEntry(file.statError[1])>>
        ELSE IF file.size > maxFileSize
        THEN << [path |-> filePath,
                 content |-> <<"[File too large:", ToString(file.size),
                               "bytes - content not analyzed]">>,
                 size |-> file.size,
                 language |-> detectFileLanguage(filePath),
                 summary |-> <<"File too large for analysis">>] >>
        ELSE IF file.readError # <<>> THEN <<ErrorEntry(file.readError[1])>>
        ELSE << [path |-> filePath,
                 content |-> file.content,
                 size |-> file.size,
                 language |-> detectFileLanguage(filePath),
                 summary |-> generateFileSummary(file.content, filePath)] >>

RECURSIVE analyzeImportantFiles(_, _)
analyzeImportantFiles(files, disk) ==
    IF files = <<>> THEN <<>>
    ELSE analyzeImportantFile(Head(files), disk) \o analyzeImportantFiles(Tail(files), disk)

\* the call: every statement of the method is inside the loop's try block
AnalyzeImportantFilesCall ==
    /\ args.method = "analyzeImportantFiles"
    /\ returnValue = <<>>
    /\ returnValue' = <<Returns(analyzeImportantFiles(args.files, args.disk))>>
    /\ last' = [op |-> "analyzeImportantFiles", who |-> Null, ret |-> "returns"]
    /\ UNCHANGED args
    /\ UNCHANGED <<execVars, agentVars, analyzerVars, featureVars>>

(***************************************************************************)
(* Strings of the prompt and command builders.  A string is a sequence of  *)
(* runs [s, w, n]: the symbol s, of w characters, n times over.  A symbol  *)
(* is a character, a placeholder, a replacement pattern, or a fixed text   *)
(* of the source (a literal piece of a template, a fallback text, a        *)
(* marker, a flag), named after its place or its first words.              *)
(***************************************************************************)
Ch(c, n) == [s |-> c, w |-> 1, n |-> n]
Lit(name, w) == [s |-> name, w |-> w, n |-> 1]

Placeholders == {"{projectSummary}", "{featureContent}", "{implementationContext}",
                 "{fileContent}", "{filePath}", "{importantFilesAnalysis}"}

\* String.prototype.includes for a character
includesChar(str, c) ==
    LET \* the characters, among those the escaping functions look for, of a symbol
        CharsOf(s) ==
            IF s \in {"a", " ", "'", "\"", "\\", "\n", "\r", "$", "#"} THEN {s}
            ELSE IF s \in Placeholders \cup {"$$", "$&"} THEN {}
            ELSE IF s = "'\"'\"'" THEN {"'", "\""}
            ELSE IF s = "\\'" THEN {"\\", "'"}
            ELSE IF s = "\"\"" THEN {"\""}
            ELSE IF s \in {"FILE_ANALYSIS.GEMINI_CLI/4", "No project context available",
                           "No feature content provided", "No implementation context provided",
                           "No file content provided", "No file path provided",
                           "No important files specified"}
            THEN {" "}
            ELSE {" ", "\n"}
    IN  \E k \in 1..Len(str) : str[k].n > 0 /\ c \in CharsOf(str[k].s)

\* String.prototype.length
RECURSIVE length(_)
length(str) == IF str = <<>> THEN 0 ELSE Head(str).w * Head(str).n + length(Tail(str))

\* String.prototype.substring(0, k); "#" stands for a character of a symbol cut in two
RECURSIVE substring(_, _)
substring(str, k) ==
    IF str = <<>> \/ k <= 0 THEN <<>>
    ELSE LET run == Head(str)
         IN  IF run.w * run.n <= k
             THEN <<run>> \o substring(Tail(str), k - run.w * run.n)
             ELSE (IF k \div run.w > 0 THEN <<[run EXCEPT !.n = k \div run.w]>> ELSE <<>>)
                  \o (IF k % run.w > 0 THEN <<Ch("#", k % run.w)>> ELSE <<>>)

\* String.prototype.replace(pattern, replacement) with a string pattern: the
\* first occurrence only; in the replacement, $$ inserts "$" and $& the match
replace(str, pattern, replacement) ==
    LET hits == {k \in 1..Len(str) : str[k].s = pattern /\ str[k].n > 0}
        ExpandReplacement(match) ==
            [k \in 1..Len(replacement) |->
                IF replacement[k].s = "$$" THEN Ch("$", replacement[k].n)
                ELSE IF replacement[k].s = "$&" THEN [match EXCEPT !.n = replacement[k].n]
                ELSE replacement[k]]
    IN  IF hits = {} THEN str
        ELSE LET k == CHOOSE h \in hits : \A j \in hits : h <= j
             IN  SubSeq(str, 1, k - 1)
                 \o ExpandReplacement([str[k] EXCEPT !.n = 1])
                 \o (IF str[k].n > 1 THEN <<[str[k] EXCEPT !.n = @ - 1]>> ELSE <<>>)
                 \o SubSeq(str, k + 1, Len(str))

(***************************************************************************)
(* PromptBuilder (src/src/constants/prompts.ts)                            *)
(***************************************************************************)
PROMPT_TEMPLATES ==
    [QUESTIONNAIRE |->
        [CLAUDE_CODE |->
            <<Lit("QUESTIONNAIRE.CLAUDE_CODE/1", 118), Lit("{projectSummary}", 16),
              Lit("QUESTIONNAIRE.CLAUDE_CODE/2", 24), Lit("{featureContent}", 16),
              Lit("QUESTIONNAIRE.CLAUDE_CODE/3", 28), Lit("{importantFilesAnalysis}", 24),
              Lit("QUESTIONNAIRE.CLAUDE_CODE/4", 931)>>,
         GEMINI_CLI |->
            <<Lit("QUESTIONNAIRE.GEMINI_CLI/1", 121), Lit("{projectSummary}", 16),
              Lit("QUESTIONNAIRE.GEMINI_CLI/2", 22), Lit("{featureContent}", 16),
              Lit("QUESTIONNAIRE.GEMINI_CLI/3", 28), Lit("{importantFilesAnalysis}", 24),
              Lit("QUESTIONNAIRE.GEMINI_CLI/4", 543)>>],
     IMPLEMENTATION |->
        [CLAUDE_CODE |->
            <<Lit("IMPLEMENTATION.CLAUDE_CODE/1", 125), Lit("{projectSummary}", 16),
              Lit("IMPLEMENTATION.CLAUDE_CODE/2", 25), Lit("{featureContent}", 16),
              Lit("IMPLEMENTATION.CLAUDE_CODE/3", 28), Lit("{importantFilesAnalysis}", 24),
              Lit("IMPLEMENTATION.CLAUDE_CODE/4", 838)>>,
         GEMINI_CLI |->
            <<Lit("IMPLEMENTATION.GEMINI_CLI/1", 113), Lit("{projectSummary}", 16),
              Lit("IMPLEMENTATION.GEMINI_CLI/2", 24), Lit("{featureContent}", 16),
              Lit("IMPLEMENTATION.GEMINI_CLI/3", 28), Lit("{importantFilesAnalysis}", 24),
              Lit("IMPLEMENTATION.GEMINI_CLI/4", 333)>>],
     CODE_GENERATION |->
        [CLAUDE_CODE |->
            <<Lit("CODE_GENERATION.CLAUDE_CODE/1", 122), Lit("{projectSummary}", 16),
              Lit("CODE_GENERATION.CLAUDE_CODE/2", 25), Lit("{featureContent}", 16),
              Lit("CODE_GENERATION.CLAUDE_CODE/3", 31), Lit("{implementationContext}", 23),
              Lit("CODE_GENERATION.CLAUDE_CODE/4", 43), Ch("'", 1),
              Lit("CODE_GENERATION.CLAUDE_CODE/5", 374)>>,
         GEMINI_CLI |->
            <<Lit("CODE_GENERATION.GEMINI_CLI/1", 114), Lit("{projectSummary}", 16),
              Lit("CODE_GENERATION.GEMINI_CLI/2", 19), Lit("{featureContent}", 16),
              Lit("CODE_GENERATION.GEMINI_CLI/3", 26), Lit("{implementationContext}", 23),
              Lit("CODE_GENERATION.GEMINI_CLI/4", 168)>>],
     FILE_ANALYSIS |->
        [CLAUDE_CODE |->
            <<Lit("FILE_ANALYSIS.CLAUDE_CODE/1", 132), Lit("{projectSummary}", 16),
              Lit("FILE_ANALYSIS.CLAUDE_CODE/2", 16), Lit("{fileContent}", 13),
              Lit("FILE_ANALYSIS.CLAUDE_CODE/3", 13), Lit("{filePath}", 10),
              Lit("FILE_ANALYSIS.CLAUDE_CODE/4", 396)>>,
         GEMINI_CLI |->
            <<Lit("FILE_ANALYSIS.GEMINI_CLI/1", 141), Lit("{projectSummary}", 16),
              Lit("FILE_ANALYSIS.GEMINI_CLI/2", 30), Lit("{filePath}", 10), Ch("\n", 1),
              Lit("{fileContent}", 13), Lit("FILE_ANALYSIS.GEMINI_CLI/3", 30), Ch("'", 1),
              Lit("FILE_ANALYSIS.GEMINI_CLI/4", 79)>>]]

buildPrompt(template, context) ==
    LET \* value || fallback
        OrElse(value, fallback) == IF value = <<>> THEN fallback ELSE value
        \* String.prototype.trim
        RECURSIVE trimStart(_)
        trimStart(s) ==
            IF s # <<>> /\ Head(s).s \in {" ", "\n", "\r"} THEN trimStart(Tail(s)) ELSE s
        RECURSIVE trimEnd(_)
        trimEnd(s) ==
            IF s # <<>> /\ s[Len(s)].s \in {" ", "\n", "\r"}
            THEN trimEnd(SubSeq(s, 1, Len(s) - 1))
            ELSE s
        p1 == replace(template, "{projectSummary}",
                      OrElse(context.projectSummary, <<Lit("No project context available", 28)>>))
        p2 == replace(p1, "{featureContent}",
                      OrElse(context.featureContent, <<Lit("No feature content provided", 27)>>))
        p3 == replace(p2, "{implementationContext}",
                      OrElse(context.implementationContext,
                             <<Lit("No implementation context provided", 34)>>))
        p4 == replace(p3, "{fileContent}",
                      OrElse(context.fileContent, <<Lit("No file content provided", 24)>>))
        p5 == replace(p4, "{filePath}",
                      OrElse(context.filePath, <<Lit("No file path provided", 21)>>))
        p6 == replace(p5, "{importantFilesAnalysis}",
                      OrElse(context.importantFilesAnalysis,
                             <<Lit("No important files specified", 28)>>))
    IN  trimEnd(trimStart(p6))

\* <<template>>, or <<>> when the table has no entry under the agent key
getTemplate(operation, agent) ==
    LET \* agent.toUpperCase().replace('-', '_')
        agentKey == CASE agent = "claude-code" -> "CLAUDE_CODE"
                      [] agent = "gemini-cli"  -> "GEMINI_CLI"
                      [] agent = "aider"       -> "AIDER"
        operationKey == CASE operation = "questionnaire"  -> "QUESTIONNAIRE"
                          [] operation = "implementation" -> "IMPLEMENTATION"
                          [] operation = "codegen"        -> "CODE_GENERATION"
                          [] operation = "analysis"       -> "FILE_ANALYSIS"
    IN  IF agentKey \in DOMAIN PROMPT_TEMPLATES[operationKey]
        THEN <<PROMPT_TEMPLATES[operationKey][agentKey]>>
        ELSE <<>>

\* truncateContext appending the marker to the field left whole
truncateContextUncut(context, maxLength) ==
    LET Truncated(value, share, marker) ==
            IF length(value) * share.per > share.of THEN value \o <<marker>> ELSE value
    IN
    [context EXCEPT
        !.featureContent =
            Truncated(@, [of |-> maxLength, per |-> 3],
                      Lit("\n\n[Content truncated for length...]", 35)),
        !.projectSummary =
            Truncated(@, [of |-> maxLength, per |-> 6],
                      Lit("\n\n[Summary truncated for length...]", 35)),
        !.fileContent =
            Truncated(@, [of |-> maxLength, per |-> 3],
                      Lit("\n\n[File content truncated for length...]", 40)),
        !.importantFilesAnalysis =
            Truncated(@, [of |-> maxLength, per |-> 3],
                      Lit("\n\n[Files analysis truncated for length...]", 42))]

\* maxLength / 3 and maxLength / 6 are not rounded: a field is longer than its
\* share of maxLength / per when per times its length is more than maxLength,
\* and substring cuts at the whole part of the share
truncateContext(context, maxLength) ==
    LET \* a field longer than its share is cut to the share and gets the marker
        Truncated(value, share, marker) ==
            IF length(value) * share.per > share.of
            THEN substring(value, share.of \div share.per) \o <<marker>> ELSE value
    IN
    [context EXCEPT
        !.featureContent =
            Truncated(@, [of |-> maxLength, per |-> 3],
                      Lit("\n\n[Content truncated for length...]", 35)),
        !.projectSummary =
            Truncated(@, [of |-> maxLength, per |-> 6],
                      Lit("\n\n[Summary truncated for length...]", 35)),
        !.fileContent =
            Truncated(@, [of |-> maxLength, per |-> 3],
                      Lit("\n\n[File content truncated for length...]", 40)),
        !.importantFilesAnalysis =
            Truncated(@, [of |-> maxLength, per |-> 3],
                      Lit("\n\n[Files analysis truncated for length...]", 42))]

\* the calls of truncateContext: fields that are absent, short, as long as a
\* marker, and longer than the shares of the default budget
TruncateCalls ==
    LET Values == {<<>>, <<Ch("a", 5)>>, <<Ch("a", 40)>>, <<Ch("a", 1001)>>, <<Ch("a", 2001)>>}
    IN  [method : {"truncateContext"}, maxLength : {-3, 0, 7, 100, 6000},
         context : [projectSummary : Values, featureContent : Values,
                    implementationContext : {<<Ch("a", 2001)>>}, fileContent : Values,
                    filePath : {<<Ch("a", 5)>>}, importantFilesAnalysis : Values]]

TruncateContextCall ==
    /\ args.method = "truncateContext"
    /\ returnValue = <<>>
    /\ returnValue' = <<truncateContext(args.context, args.maxLength)>>
    /\ last' = [op |-> "truncateContext", who |-> Null, ret |-> "returns"]
    /\ UNCHANGED args
    /\ UNCHANGED <<execVars, agentVars, analyzerVars, featureVars>>

\* the calls of buildPrompt: a template of the table and a context whose field
\* values are absent, plain, holding the text of a placeholder, or holding a
\* replacement pattern
PromptCalls ==
    LET Templates ==
            {PROMPT_TEMPLATES[operation][agentKey] :
                operation \in DOMAIN PROMPT_TEMPLATES,
                agentKey \in {"CLAUDE_CODE", "GEMINI_CLI"}}
        PlainValues == {<<>>, <<Ch("a", 3)>>}
        FieldValues ==
            PlainValues \cup {<<Ch("a", 1), Lit("{featureContent}", 16)>>, <<Lit("$&", 2)>>,
                              <<Ch("a", 1), Lit("{filePath}", 10)>>}
    IN  [method : {"buildPrompt"}, template : Templates,
         context : [projectSummary : FieldValues, featureContent : FieldValues,
                    implementationContext : PlainValues, fileContent : PlainValues,
                    filePath : PlainValues, importantFilesAnalysis : PlainValues]]

BuildPromptCall ==
    /\ args.method = "buildPrompt"
    /\ returnValue = <<>>
    /\ returnValue' = <<buildPrompt(args.template, args.context)>>
    /\ last' = [op |-> "buildPrompt", who |-> Null, ret |-> "returns"]
    /\ UNCHANGED args
    /\ UNCHANGED <<execVars, agentVars, analyzerVars, featureVars>>

(***************************************************************************)
(* CommandBuilder (src/src/utils/commandBuilder.ts).  process.platform is  *)
(* the parameter platform of the methods that depend on it.                *)
(***************************************************************************)
MAX_COMMAND_LENGTH == 8000

MaxArg == 3        \* runs of the argument handed to escapeUnixArgument
MaxText == 8000    \* characters of a long argument of a build...Command call
MaxQuotes == 2000  \* apostrophes of a feature text made of apostrophes

escapeWindowsArgument(arg) ==
    LET \* arg.replace(/"/g, '""')
        DoubleQuotes ==
            [k \in 1..Len(arg) |->
                IF arg[k].s = "\"" THEN [s |-> "\"\"", w |-> 2, n |-> arg[k].n] ELSE arg[k]]
    IN  IF \A c \in {" ", "\"", "\n", "\r"} : ~includesChar(arg, c)
        THEN arg
        ELSE <<Ch("\"", 1)>> \o DoubleQuotes \o <<Ch("\"", 1)>>

escapeUnixArgumentBackslash(arg) ==
    LET \* arg.replace(/'/g, "\\'")
        BackslashQuote ==
            [k \in 1..Len(arg) |->
                IF arg[k].s = "'" THEN [s |-> "\\'", w |-> 2, n |-> arg[k].n] ELSE arg[k]]
    IN  IF \A c \in {" ", "'", "\"", "\n", "\r", "\\"} : ~includesChar(arg, c)
        THEN arg
        ELSE <<Ch("'", 1)>> \o BackslashQuote \o <<Ch("'", 1)>>

escapeUnixArgument(arg) ==
    LET \* arg.replace(/'/g, "'\"'\"'")
        CloseQuoteReopen ==
            [k \in 1..Len(arg) |->
                IF arg[k].s = "'" THEN [s |-> "'\"'\"'", w |-> 5, n |-> arg[k].n] ELSE arg[k]]
    IN  IF \A c \in {" ", "'", "\"", "\n", "\r", "\\"} : ~includesChar(arg, c)
        THEN arg
        ELSE <<Ch("'", 1)>> \o CloseQuoteReopen \o <<Ch("'", 1)>>

escapeShellArgument(platform, arg) ==
    IF platform = "win32" THEN escapeWindowsArgument(arg) ELSE escapeUnixArgument(arg)

\* the command buildClaudeCodeCommand has put together when it validates the length
ClaudeCodeCommand(platform, filePath, prompt, operation) ==
    LET taskFlag ==
            CASE operation = "questionnaire"  ->
                    <<Lit(" --task=\"Generate requirements questions\"", 41)>>
              [] operation = "implementation" ->
                    <<Lit(" --task=\"Create implementation plan\"", 36)>>
              [] operation = "codegen"        -> <<Lit(" --task=\"Generate code\"", 23)>>
              [] operation = "analysis"       -> <<Lit(" --task=\"Analyze file\"", 22)>>
              [] OTHER                        -> <<>>
    IN  <<Lit("claude code --file=", 19)>> \o escapeShellArgument(platform, filePath)
        \o taskFlag
        \o <<Lit(" --prompt=", 10)>> \o escapeShellArgument(platform, prompt)

buildClaudeCodeCommandUnchecked(platform, filePath, prompt, operation) ==
    Returns(ClaudeCodeCommand(platform, filePath, prompt, operation))

buildClaudeCodeCommand(platform, filePath, prompt, operation) ==
    IF length(ClaudeCodeCommand(platform, filePath, prompt, operation)) > MAX_COMMAND_LENGTH
    THEN Throws
    ELSE Returns(ClaudeCodeCommand(platform, filePath, prompt, operation))

\* the command buildGeminiCLICommand has put together when it validates the length
GeminiCLICommand(platform, filePath, prompt, operation) ==
    LET taskFlag ==
            CASE operation = "questionnaire"  ->
                    <<Lit(" --model-type=text --task=requirements-analysis", 47)>>
              [] operation = "implementation" ->
                    <<Lit(" --model-type=text --task=planning", 34)>>
              [] operation = "codegen"        ->
                    <<Lit(" --model-type=code --task=generation", 36)>>
              [] operation = "analysis"       ->
                    <<Lit(" --model-type=text --task=analysis", 34)>>
              [] OTHER                        -> <<>>
    IN  <<Lit("gcloud ai generate", 18)>>
        \o <<Lit(" --input-file=", 14)>> \o escapeShellArgument(platform, filePath)
        \o <<Lit(" --prompt=", 10)>> \o escapeShellArgument(platform, prompt)
        \o taskFlag

buildGeminiCLICommand(platform, filePath, prompt, operation) ==
    IF length(GeminiCLICommand(platform, filePath, prompt, operation)) > MAX_COMMAND_LENGTH
    THEN Throws
    ELSE Returns(GeminiCLICommand(platform, filePath, prompt, operation))

buildAgentSpecificCommand(platform, agent, filePath, prompt, operation) ==
    CASE agent = "claude-code" -> buildClaudeCodeCommand(platform, filePath, prompt, operation)
      [] agent = "gemini-cli"  -> buildGeminiCLICommand(platform, filePath, prompt, operation)
      [] OTHER                 -> Throws

\* the common body of the four build...Command methods; buildPrompt throws on
\* the undefined template of an agent the table does not know
buildCommand(platform, agent, filePath, promptContext, operation) ==
    LET truncatedContext == truncateContext(promptContext, 6000)
        template == getTemplate(operation, agent)
    IN  IF template = <<>> THEN Throws
        ELSE buildAgentSpecificCommand(platform, agent, filePath,
                                       buildPrompt(template[1], truncatedContext), operation)

\* context is not read
buildQuestionnaireCommand(platform, agent, filePath, context, featureContent, projectSummary) ==
    buildCommand(platform, agent, filePath,
                 [projectSummary |-> projectSummary, featureContent |-> featureContent,
                  implementationContext |-> <<>>, fileContent |-> <<>>,
                  filePath |-> <<>>, importantFilesAnalysis |-> <<>>],
                 "questionnaire")

buildImplementationCommand(platform, agent, filePath, context, featureContent, projectSummary) ==
    buildCommand(platform, agent, filePath,
                 [projectSummary |-> projectSummary, featureContent |-> featureContent,
                  implementationContext |-> <<>>, fileContent |-> <<>>,
                  filePath |-> <<>>, importantFilesAnalysis |-> <<>>],
                 "implementation")

buildCodeGenerationCommand(platform, agent, filePath, context, featureContent, projectSummary, implementationContext) ==
    buildCommand(platform, agent, filePath,
                 [projectSummary |-> projectSummary, featureContent |-> featureContent,
                  implementationContext |-> implementationContext, fileContent |-> <<>>,
                  filePath |-> <<>>, importantFilesAnalysis |-> <<>>],
                 "codegen")

buildFileAnalysisCommand(platform, agent, filePath, context, fileContent, projectSummary) ==
    buildCommand(platform, agent, filePath,
                 [projectSummary |-> projectSummary, featureContent |-> <<>>,
                  implementationContext |-> <<>>, fileContent |-> fileContent,
                  filePath |-> filePath, importantFilesAnalysis |-> <<>>],
                 "analysis")

\* the calls of the four build...Command methods
BuilderCalls ==
    [method : {"buildQuestionnaireCommand", "buildImplementationCommand",
               "buildCodeGenerationCommand", "buildFileAnalysisCommand"},
     platform : {"linux", "win32"},
     agent : {"claude-code", "gemini-cli", "aider"},
     context : {[importantFiles |-> <<>>, analyzedFiles |-> <<>>]},
     filePath : {<<Ch("a", 8)>>, <<Ch("a", 3), Ch(" ", 1), Ch("a", 3)>>, <<Ch("a", MaxText)>>},
     content : {<<Ch("a", 3)>>, <<Ch("a", 1), Ch("\"", 2)>>, <<Ch("'", MaxQuotes)>>,
                <<Ch("a", MaxText)>>},
     projectSummary : {<<>>, <<Ch("a", MaxText)>>},
     implementationContext : {<<Ch("a", 3)>>, <<Ch("a", MaxText \div 2)>>}]

BuildCommandCall ==
    /\ args.method \in {"buildQuestionnaireCommand", "buildImplementationCommand",
                        "buildCodeGenerationCommand", "buildFileAnalysisCommand"}
    /\ returnValue = <<>>
    /\ returnValue' =
          << CASE args.method = "buildQuestionnaireCommand" ->
                    buildQuestionnaireCommand(args.platform, args.agent, args.filePath,
                                              args.context, args.content, args.projectSummary)
               [] args.method = "buildImplementationCommand" ->
                    buildImplementationCommand(args.platform, args.agent, args.filePath,
                                               args.context, args.content, args.projectSummary)
               [] args.method = "buildCodeGenerationCommand" ->
                    buildCodeGenerationCommand(args.platform, args.agent, args.filePath,
                                               args.context, args.content,
                                               args.projectSummary,
                                               args.implementationContext)
               [] args.method = "buildFileAnalysisCommand" ->
                    buildFileAnalysisCommand(args.platform, args.agent, args.filePath,
                                             args.context, args.content, args.projectSummary) >>
    /\ last' = [op |-> args.method, who |-> args.agent,
                ret |-> IF returnValue'[1].threw THEN "throws" ELSE "returns"]
    /\ UNCHANGED args
    /\ UNCHANGED <<execVars, agentVars, analyzerVars, featureVars>>

\* the calls of escapeUnixArgument: up to MaxArg runs of one or two characters
EscapeCalls ==
    [method : {"escapeUnixArgument"},
     arg : UNION {[1..k -> {Ch(c, n) : c \in {"a", " ", "'", "\"", "\\", ";", "$"},
                                       n \in 1..2}] :
                     k \in 0..MaxArg}]

EscapeUnixArgumentCall ==
    /\ args.method = "escapeUnixArgument"
    /\ returnValue = <<>>
    /\ returnValue' = <<escapeUnixArgument(args.arg)>>
    /\ last' = [op |-> "escapeUnixArgument", who |-> Null, ret |-> "returns"]
    /\ UNCHANGED args
    /\ UNCHANGED <<execVars, agentVars, analyzerVars, featureVars>>

(***************************************************************************)
(* CLICommands (src/src/commands/cliCommands.ts).  The selected agent is   *)
(* <<status>> or <<>>, the feature file resolved is <<path>> or <<>>; what *)
(* readFeatureFile gives, and what analyzeProject followed by              *)
(* getProjectSummary gives, is [threw, value].  The result of a handler is *)
(* the command it hands to the execution service: Returns(command),        *)
(* Throws when the handler's catch block took an error, and no value when  *)
(* the handler returned before building a command.                         *)
(***************************************************************************)
\* the calls of generateQuestions and of generatePlan
GenerateCalls ==
    [method : {"generateQuestions", "generatePlan"},
     platform : {"linux", "win32"},
     selectedAgent : {<<>>} \cup {<<agent>> : agent \in UNION {Elements(s) : s \in MockSnapshots}},
     filePath : {<<>>, <<<<Ch("a", 8)>>>>},
     featureContent : {Throws, Returns(<<Ch("a", 3)>>)},
     extractedFiles : {<<>>, <<"src/a.ts">>},
     pickedFiles : {<<>>, <<"c.json", "lib/B.PY">>},
     disk : {[f \in ImportantPaths |-> MissingFile],
             [f \in ImportantPaths |->
                 [exists |-> TRUE, statError |-> <<>>, size |-> 4, readError |-> <<>>,
                  content |-> <<"{}">>]]},
     projectSummary : {Throws, Returns(<<Ch("a", 3)>>)}]

\* generateQuestions and generatePlan, which differ in the capability they ask
\* for and in the builder they call
GenerateCall ==
    /\ args.method \in {"generateQuestions", "generatePlan"}
    /\ returnValue = <<>>
    /\ LET agent == args.selectedAgent
           feature == IF args.method = "generateQuestions" THEN "questionnaire" ELSE "planning"
           importantFiles ==
               IF Len(args.extractedFiles) = 0 THEN args.pickedFiles ELSE args.extractedFiles
           \* getProjectContext
           context ==
               [importantFiles |-> <<>>,
                analyzedFiles |-> IF Len(importantFiles) > 0
                                  THEN <<analyzeImportantFiles(importantFiles, args.disk)>>
                                  ELSE <<>>]
       IN  returnValue' =
              << IF args.filePath = <<>> THEN [threw |-> FALSE, value |-> <<>>]
                 ELSE IF agent = <<>> \/ ~includes(agent[1].supportedFeatures, feature)
                 THEN [threw |-> FALSE, value |-> <<>>]
                 ELSE IF args.featureContent.threw \/ args.projectSummary.threw THEN Throws
                 ELSE IF args.method = "generateQuestions"
                 THEN buildQuestionnaireCommand(args.platform, agent[1].name, args.filePath[1],
                                                context, args.featureContent.value[1],
                                                args.projectSummary.value[1])
                 ELSE buildImplementationCommand(args.platform, agent[1].name,
                                                 args.filePath[1], context,
                                                 args.featureContent.value[1],
                                                 args.projectSummary.value[1]) >>
    /\ last' = [op |-> args.method, who |-> Null,
                ret |-> IF returnValue'[1].threw THEN "throws" ELSE "returns"]
    /\ UNCHANGED args
    /\ UNCHANGED <<execVars, agentVars, analyzerVars, featureVars>>

\* the calls of runInTerminal; pick is the place in the list of the operation
\* the user picks, 0 when the list is dismissed
TerminalCalls ==
    [method : {"runInTerminal"}, platform : {"linux"},
     selectedAgent : {<<>>} \cup {<<agent>> : agent \in UNION {Elements(s) : s \in MockSnapshots}},
     filePath : {<<>>, <<<<Ch("a", 8)>>>>},
     pick : 0..4,
     featureContent : {Returns(<<Ch("a", 3)>>)},
     projectSummary : {Returns(<<Ch("a", 3)>>)}]

\* runInTerminal up to the command it hands to the terminal; shown is whether
\* showQuickPick was called, operations the list it was called with
RunInTerminalCall ==
    /\ args.method = "runInTerminal"
    /\ returnValue = <<>>
    /\ LET agent == args.selectedAgent
           shown == args.filePath # <<>> /\ agent # <<>>
           operations ==
               IF shown
               THEN SelectSeq(<<[label |-> "Generate Questions", value |-> "questionnaire"],
                                [label |-> "Generate Plan", value |-> "implementation"],
                                [label |-> "Generate Code", value |-> "codegen"],
                                [label |-> "Analyze File", value |-> "analysis"]>>,
                              LAMBDA op : includes(agent[1].supportedFeatures, op.value))
               ELSE <<>>
           selectedOp == IF args.pick \in 1..Len(operations)
                         THEN <<operations[args.pick]>> ELSE <<>>
           context == [importantFiles |-> <<>>, analyzedFiles |-> <<>>]
           command ==
               IF selectedOp = <<>> THEN [threw |-> FALSE, value |-> <<>>]
               ELSE CASE selectedOp[1].value = "questionnaire" ->
                            buildQuestionnaireCommand(args.platform, agent[1].name,
                                args.filePath[1], context, args.featureContent.value[1],
                                args.projectSummary.value[1])
                      [] selectedOp[1].value = "implementation" ->
                            buildImplementationCommand(args.platform, agent[1].name,
                                args.filePath[1], context, args.featureContent.value[1],
                                args.projectSummary.value[1])
                      [] selectedOp[1].value = "codegen" ->
                            buildCodeGenerationCommand(args.platform, agent[1].name,
                                args.filePath[1], context, args.featureContent.value[1],
                                args.projectSummary.value[1], <<>>)
                      [] selectedOp[1].value = "analysis" ->
                            buildFileAnalysisCommand(args.platform, agent[1].name,
                                args.filePath[1], context, args.featureContent.value[1],
                                args.projectSummary.value[1])
       IN  returnValue' = <<[threw |-> command.threw, value |-> command.value,
                             shown |-> shown, operations |-> operations]>>
    /\ last' = [op |-> "runInTerminal", who |-> Null,
                ret |-> IF returnValue'[1].threw THEN "throws" ELSE "returns"]
    /\ UNCHANGED args
    /\ UNCHANGED <<execVars, agentVars, analyzerVars, featureVars>>

\* one call of a method without state
CallNext ==
    \/ AnalyzeImportantFilesCall
    \/ BuildPromptCall
    \/ BuildCommandCall
    \/ EscapeUnixArgumentCall
    \/ GenerateCall
    \/ TruncateContextCall
    \/ RunInTerminalCall

InitCall ==
    /\ ExecInit
    /\ AgentInit
    /\ ~mockMode
    /\ AnalyzerInit
    /\ FeatureInit
    /\ workspace = [p \in Paths |-> NoWorkspace]
    /\ args \in FileCalls \cup PromptCalls \cup BuilderCalls \cup EscapeCalls
                \cup GenerateCalls \cup TruncateCalls
                \cup TerminalCalls
    /\ returnValue = <<>>
    /\ last = [op |-> "init", who |-> Null, ret |-> Null]

SpecCall == InitCall /\ [][CallNext]_vars



(***************************************************************************)
(* FileService (src/src/services/fileService.ts) and FeatureTreeProvider   *)
(* (src/unnamed/part_004).  A createFeatureFile call is suspended at       *)
(*   "exists"  await this.featureExists(sanitizedName)                     *)
(*   "unique"  await this.featureExists(uniqueName), in the loop of        *)
(*             generateUniqueFileName                                      *)
(*   "write"   await fs.promises.writeFile(...) of the path chosen         *)
(* and a loadFeatureFiles call at await this.fileService.listFeatureFiles  *)
(* before or after readdir has read the directory.                         *)
(***************************************************************************)
validateFileName(name) ==
    LET trimmed == CASE name = " My  Feature " -> "My  Feature"
                     [] name = "   "           -> ""
                     [] OTHER                  -> name
        \* /[<>:"/\\|?*\x00-\x1f]/.test(trimmed)
        invalidChars == trimmed \in {"a*b"}
        \* toLowerCase, spaces to a hyphen, other characters removed, hyphens
        \* merged, leading and trailing hyphen removed
        sanitized == CASE trimmed = "My  Feature" -> "my-feature"
                       [] trimmed = "my_feature!" -> "myfeature"
                       [] trimmed = "!!!"         -> ""
                       [] OTHER                   -> trimmed
    IN  IF trimmed = "" \/ invalidChars \/ sanitized = ""
        THEN [valid |-> FALSE, sanitized |-> ""]
        ELSE [valid |-> TRUE, sanitized |-> sanitized]

\* featureExists sanitizes the name again and looks for the file
featureExists(name) == directory[validateFileName(name).sanitized] # <<>>

createFeatureFile(c, name, content) ==
    /\ creating[c].pc = "idle"
    /\ LET validation == validateFileName(name)
       IN  IF ~validation.valid
           THEN /\ creating' = [creating EXCEPT ![c].pc = "done"]
                /\ last' = [op |-> "createFeatureFile", who |-> c, ret |-> "throws"]
           ELSE /\ creating' = [creating EXCEPT ![c] =
                                   [pc |-> "exists", content |-> content,
                                    baseName |-> validation.sanitized,
                                    uniqueName |-> validation.sanitized, counter |-> 1]]
                /\ last' = [op |-> "createFeatureFile", who |-> c, ret |-> "pending"]
    /\ UNCHANGED <<directory, data, loading>>
    /\ UNCHANGED <<execVars, agentVars, analyzerVars, callVars>>

\* the awaited promise settles and createFeatureFile runs on to its next await,
\* or to its end; written is whether writeFile succeeds
CreateFeatureFileResume(c, written) ==
    LET call == creating[c]
    IN  /\ call.pc \in {"exists", "unique", "write"}
        /\ CASE call.pc = "exists" ->
                   /\ creating' = [creating EXCEPT ![c].pc =
                                      IF featureExists(call.baseName) THEN "unique" ELSE "write"]
                   /\ last' = [op |-> "createFeatureFile.resume", who |-> c, ret |-> "pending"]
                   /\ UNCHANGED directory
             [] call.pc = "unique" ->
                   /\ IF featureExists(call.uniqueName)
                      THEN /\ call.counter <= MaxNumbered
                           /\ creating' = [creating EXCEPT
                                              ![c].uniqueName =
                                                  call.baseName \o "-" \o ToString(call.counter),
                                              ![c].counter = call.counter + 1]
                      ELSE creating' = [creating EXCEPT ![c].pc = "write"]
                   /\ last' = [op |-> "createFeatureFile.resume", who |-> c, ret |-> "pending"]
                   /\ UNCHANGED directory
             [] call.pc = "write" ->
                   /\ creating' = [creating EXCEPT ![c].pc = "done"]
                   /\ IF written
                      THEN /\ directory' = [directory EXCEPT ![call.uniqueName] = <<call.content>>]
                           /\ last' = [op |-> "createFeatureFile.resume", who |-> c,
                                       ret |-> call.uniqueName]
                      ELSE /\ UNCHANGED directory
                           /\ last' = [op |-> "createFeatureFile.resume", who |-> c,
                                       ret |-> "throws"]
        /\ UNCHANGED <<data, loading>>
        /\ UNCHANGED <<execVars, agentVars, analyzerVars, callVars>>

\* loadFeatureFiles is started and not awaited, then the event is fired
refresh ==
    /\ Len(loading) < MaxLoads
    /\ loading' = Append(loading, [listed |-> FALSE, failed |-> FALSE, files |-> <<>>])
    /\ last' = [op |-> "refresh", who |-> Null, ret |-> "onDidChangeTreeData"]
    /\ UNCHANGED <<directory, creating, data>>
    /\ UNCHANGED <<execVars, agentVars, analyzerVars, callVars>>

\* loadFeatureFiles number k goes on: readdir reads the directory (or fails),
\* and once listFeatureFiles has settled the call assigns this.data
LoadFeatureFilesResume(k, readdirFails) ==
    /\ k \in 1..Len(loading)
    /\ IF ~loading[k].listed
       THEN /\ loading' = [loading EXCEPT ![k] =
                              [listed |-> TRUE, failed |-> readdirFails,
                               files |-> IF readdirFails THEN <<>>
                                         ELSE SelectSeq(FeatureFiles,
                                                        LAMBDA f : directory[f] # <<>>)]]
            /\ last' = [op |-> "loadFeatureFiles.readdir", who |-> Null, ret |-> "pending"]
            /\ UNCHANGED data
       ELSE /\ data' = IF loading[k].failed THEN <<"empty-state">> ELSE loading[k].files
            /\ loading' = SubSeq(loading, 1, k - 1) \o SubSeq(loading, k + 1, Len(loading))
            /\ last' = [op |-> "loadFeatureFiles", who |-> Null, ret |-> "returns"]
    /\ UNCHANGED <<directory, creating>>
    /\ UNCHANGED <<execVars, agentVars, analyzerVars, callVars>>

FeaturesNext ==
    \/ \E c \in Callers, name \in {" My  Feature ", "my-feature", "a*b"},
          content \in {"first", "second"} : createFeatureFile(c, name, content)
    \/ \E c \in Callers, written \in BOOLEAN : CreateFeatureFileResume(c, written)
    \/ refresh
    \/ \E k \in 1..MaxLoads, readdirFails \in BOOLEAN : LoadFeatureFilesResume(k, readdirFails)

\* the directory holds no file, the file of the name, or that file and its
\* first numbered file
InitFeatures ==
    /\ ExecInit
    /\ AgentInit
    /\ ~mockMode
    /\ AnalyzerInit
    /\ workspace = [p \in Paths |-> NoWorkspace]
    /\ CallInit
    /\ directory \in {[f \in {FeatureFiles[k] : k \in DOMAIN FeatureFiles} |->
                          IF f \in existing THEN <<"old">> ELSE <<>>] :
                        existing \in {{}, {"my-feature"}, {"my-feature", "my-feature-1"}}}
    /\ creating = [c \in Callers |-> NotCreating]
    /\ data = <<>>
    /\ loading = <<[listed |-> FALSE, failed |-> FALSE, files |-> <<>>]>>
    /\ last = [op |-> "init", who |-> Null, ret |-> Null]

SpecFeatures == InitFeatures /\ [][FeaturesNext]_vars

(***************************************************************************)
(* Properties of the CLIExecutionService                                   *)
(***************************************************************************)
ChildRunning(i) == pc[i] = "running" /\ ~closed[i] /\ ~errored[i]
Pending(i) == result[i] = <<>>
TimerFires(i) == timer[i] = "armed" /\ timer'[i] = "fired"
CancelRequested(i) ==
    \/ ~callerCancelled[i] /\ callerCancelled'[i]
    \/ ~progressCancelled[i] /\ progressCancelled'[i]
Registered(i) == processId[i] # Null /\ activeProcesses[processId[i]] = i
IsTimeoutResult(r) == ~r.success /\ Contains(r.error, "timed out") /\ r.exitCode = -1
IsCancelledResult(r) == ~r.success /\ Contains(r.error, "cancelled") /\ r.exitCode = -1

\* which handler built the result r
ResultFrom(event, r) ==
    CASE event = "cancelled" -> IsCancelledResult(r)
      [] event = "timeout" -> IsTimeoutResult(r)
      [] event = "error" -> ~r.success /\ r.error \in ErrorMessages /\ r.exitCode = -1
      [] event = "close" -> r.exitCode >= 0 /\ ~Contains(r.error, "timed out")
                            /\ ~Contains(r.error, "cancelled")
      [] OTHER -> FALSE

\* C1: whatever the order in which cancellation, timeout, 'close' and 'error'
\* are handled, resolve is called exactly once, by the handler that ran first,
\* and no later event changes the settled result.
C1_ResolvedExactlyOnce ==
    /\ [](\A i \in Invocations :
            /\ resolveCalls[i] <= 1
            /\ (firstEvent[i] # Null) <=> (resolveCalls[i] = 1)
            /\ (firstEvent[i] # Null) <=> ~Pending(i)
            /\ ~Pending(i) => ResultFrom(firstEvent[i], result[i][1]))
    /\ [][\A i \in Invocations : ~Pending(i) => result'[i] = result[i]]_vars

\* all four completion events of one invocation were handled
C1_Witness ==
    \E i \in Invocations :
        /\ timer[i] = "fired" /\ tokenFired[i] /\ closed[i] /\ errored[i]
        /\ firstEvent[i] = "cancelled"
        /\ resolveCalls[i] = 1

\* C4: when the timer fires before 'close', 'error' and any cancellation were
\* handled, the child is sent SIGTERM (in that step if it is still registered,
\* and it was signalled by killAllProcesses if it is not) and the result is
\* settled in that step, before 'close', with success=false and "timed out".
C4_TimeoutResolvesAtOnce ==
    [][\A i \in Invocations :
        (TimerFires(i) /\ ~closed[i] /\ ~errored[i] /\ ~tokenFired[i])
            => /\ Pending(i) /\ ~Pending(i)'
               /\ IsTimeoutResult(result'[i][1])
               /\ signalled'[i]
               /\ Registered(i) => ~signalled[i]
               /\ ~Registered(i)'
               /\ ~closed'[i]]_vars

C4_Witness ==
    \E i \in Invocations :
        /\ firstEvent[i] = "timeout" /\ ~closed[i] /\ ~errored[i]
        /\ signalled[i]
        /\ result[i] = <<TimeoutResult(<<>>)>>
        /\ last.op = "timeout"

\* C5 as stated: cancellation requested while the child is still running
\* terminates the child and settles the result in that step as "cancelled".
C5_CancelWhileRunning ==
    [][\A i \in Invocations :
        (CancelRequested(i) /\ ChildRunning(i))
            => /\ ~Pending(i)'
               /\ IsCancelledResult(result'[i][1])
               /\ signalled'[i]]_vars

\* C5 amended: cancellation requested (caller token, or either merged token in
\* progress mode) while the child is still running and the result is still
\* pending sends the child SIGTERM (in that step if it is still registered,
\* and it was signalled by killAllProcesses if it is not) and settles the
\* result in that step as "cancelled", without waiting for 'close'.
C5_CancelWhilePending ==
    [][\A i \in Invocations :
        (CancelRequested(i) /\ ChildRunning(i) /\ Pending(i))
            => /\ ~Pending(i)'
               /\ IsCancelledResult(result'[i][1])
               /\ signalled'[i]
               /\ Registered(i) => ~signalled[i]
               /\ ~Registered(i)'
               /\ ~closed'[i]]_vars

\* progress mode, cancelled through the caller's token
C5_Witness ==
    \E i \in Invocations :
        /\ opts[i].showProgress /\ opts[i].hasToken
        /\ callerCancelled[i] /\ ~progressCancelled[i]
        /\ ChildRunning(i)
        /\ signalled[i]
        /\ result[i] = <<CancelledResult(<<>>)>>

NamesLoginSubcommand(text) ==
    Contains(text, "claude auth login") \/ Contains(text, "gcloud auth login")

\* the result was built by the 'close' handler after a normal exit and the
\* combined text matches an authentication pattern
AuthFailureExit(i) ==
    /\ firstEvent[i] = "close"
    /\ closeCode[i] # <<>>
    /\ \E pattern \in authErrorPatterns :
          \E k \in 1..Len(stderr[i] \o stdout[i]) :
              toLowerCase((stderr[i] \o stdout[i])[k]) = pattern

\* C6 as stated: after a normal exit whose text matches an authentication
\* pattern the error names the login subcommand and success = (code = 0).
C6_AuthHintNamesLogin ==
    \A i \in Invocations :
        AuthFailureExit(i)
            => /\ NamesLoginSubcommand(result[i][1].error)
               /\ result[i][1].success = (closeCode[i] = <<0>>)

MentionsTool(text) ==
    \/ Contains(text, "claude") \/ Contains(text, "Claude")
    \/ Contains(text, "gcloud") \/ Contains(text, "google")

\* C6 amended: after a normal exit whose text matches an authentication
\* pattern the error is a remediation message whatever the exit code and the
\* stderr text: "claude auth login" when the text contains claude or Claude,
\* else "gcloud auth login" when it contains gcloud or google, else the
\* generic hint that names no subcommand; success = (code = 0).
C6_AuthHintOverrides ==
    \A i \in Invocations :
        AuthFailureExit(i)
            => LET r == result[i][1]
                   text == stderr[i] \o stdout[i]
                   claude == Contains(text, "claude") \/ Contains(text, "Claude")
                   google == Contains(text, "gcloud") \/ Contains(text, "google")
               IN /\ r.error \in {ClaudeAuthMessage, GoogleAuthMessage, GenericAuthMessage}
                  /\ claude => Contains(r.error, "claude auth login")
                  /\ (~claude /\ google) => Contains(r.error, "gcloud auth login")
                  /\ MentionsTool(text) <=> NamesLoginSubcommand(r.error)
                  /\ ~MentionsTool(text) => r.error = GenericAuthMessage
                  /\ r.error # stderr[i]
                  /\ r.success = (closeCode[i] = <<0>>)

\* exit code 0 with a non-empty stderr and a matching stdout
C6_Witness ==
    \E i \in Invocations :
        /\ AuthFailureExit(i)
        /\ closeCode[i] = <<0>>
        /\ stderr[i] = <<"claude">>
        /\ stdout[i] = <<"Not Authenticated">>
        /\ result[i][1].success
        /\ result[i][1].error = ClaudeAuthMessage

\* C7 as stated: the registry holds every spawned child that has not exited
\* and is empty when no child is running.
C7_RegistryHoldsRunning ==
    /\ \A i \in Invocations : ChildRunning(i) => Registered(i)
    /\ \A id \in ProcessIds :
          activeProcesses[id] # Null => ChildRunning(activeProcesses[id])

\* C7 amended: the registry holds every spawned child that has not exited and
\* has not yet been sent SIGTERM by the service (a child is unregistered when
\* the service signals it), so every still-running child is registered or
\* already signalled; entries belong to running children only.
C7_RegistryHoldsUnsignalled ==
    /\ \A i \in Invocations : ChildRunning(i) => (Registered(i) \/ signalled[i])
    /\ \A id \in ProcessIds :
          activeProcesses[id] # Null => ChildRunning(activeProcesses[id])
    /\ (last.op = "killAllProcesses")
          => \A i \in Invocations : ChildRunning(i) => signalled[i]

\* a running child that left the registry on timeout, beside a registered one
C7_Witness ==
    \E i, j \in Invocations :
        /\ ChildRunning(i) /\ ~Registered(i) /\ signalled[i]
        /\ ChildRunning(j) /\ Registered(j) /\ ~signalled[j]

OwnEvent(i) == last'.who = i /\ last'.op \in {"cancel", "timeout", "close", "error"}

\* C8: while two invocations are in flight, a cancellation, timeout, 'close'
\* or 'error' of one sends no signal to the other's child, leaves the other's
\* registry entry in place and leaves the other's result as it is.
C8_NoInterference ==
    [][\A i, j \in Invocations :
        (i # j /\ pc[i] = "running" /\ pc[j] = "running" /\ OwnEvent(i))
            => /\ signalled'[j] = signalled[j]
               /\ Registered(j) => Registered(j)'
               /\ result'[j] = result[j]
               /\ isResolved'[j] = isResolved[j]
               /\ timer'[j] = timer[j]]_vars

\* one invocation timed out while the other is untouched
C8_Witness ==
    \E i, j \in Invocations :
        /\ i # j
        /\ firstEvent[i] = "timeout" /\ signalled[i]
        /\ ChildRunning(j) /\ Registered(j) /\ ~signalled[j] /\ Pending(j)
        /\ timer[j] = "armed"

(***************************************************************************)
(* Properties of the AgentManager and the CLIDetector                      *)
(***************************************************************************)
InSnapshot(agent) == \E k \in 1..Len(availableAgents) : availableAgents[k] = agent

\* C2: the selected agent is null or an element of the latest snapshot, also
\* when a switchAgent call waits at its prompt while a refresh replaces the
\* snapshot.
C2_SelectedInSnapshot ==
    selectedAgent = <<>> \/ InSnapshot(selectedAgent[1])

\* the statuses the manager holds: its snapshot, the agents of the switchAgent
\* calls waiting at their prompt, and the selected agent
Held == Elements(availableAgents) \cup Elements(pendingSwitch) \cup Elements(selectedAgent)

\* C27: every status the detector produced, in real mode and in mock mode, is
\* available when it is authenticated and has version "Unknown" when it is not
\* available; and the selected agent of the AgentManager, when there is one,
\* is a status whose isAvailable is true.
C27_StatusesConsistent ==
    /\ \A agent \in Held :
          /\ agent.isAuthenticated => agent.isAvailable
          /\ ~agent.isAvailable => agent.version = UnknownVersion
    /\ \A agent \in Elements(selectedAgent) : agent.isAvailable

\* an agent selected through the prompt of switchAgent after a refresh found
\* the same tool unavailable
C27_Witness ==
    /\ last.op = "switchAgent.resume" /\ last.ret = "true"
    /\ selectedAgent # <<>>
    /\ selectedAgent[1].isAvailable /\ ~selectedAgent[1].isAuthenticated
    /\ \E agent \in Elements(availableAgents) :
          /\ agent.name = selectedAgent[1].name
          /\ ~agent.isAvailable /\ agent.version = UnknownVersion

Selectable(agentName) ==
    \E k \in 1..Len(availableAgents) :
        availableAgents[k].name = agentName /\ availableAgents[k].isAvailable

\* C3: switchAgent with a name that is absent from the snapshot, or that names
\* an agent that is not available, returns false, keeps the selection and
\* fires nothing.
C3_SwitchFailsClosed ==
    [][\A agentName \in AgentNames :
        (last'.op = "switchAgent" /\ last'.who = agentName /\ ~Selectable(agentName))
            => /\ last'.ret = "false"
               /\ selectedAgent' = selectedAgent
               /\ fired' = <<>>
               /\ pendingSwitch' = pendingSwitch
               /\ availableAgents' = availableAgents]_vars

\* a refused switch to a listed but unavailable agent while another is selected
C3_Witness ==
    /\ last.op = "switchAgent" /\ last.ret = "false"
    /\ \E k \in 1..Len(availableAgents) :
          availableAgents[k].name = last.who /\ ~availableAgents[k].isAvailable
    /\ selectedAgent # <<>>
    /\ fired = <<>>

SameDescriptor(agent, config) ==
    /\ agent.name = config.name
    /\ agent.displayName = config.displayName
    /\ agent.command = config.command
    /\ agent.supportedFeatures = config.supportedFeatures

\* C9: the list detectAllAvailableAgents returns has one status per entry of
\* SUPPORTED_AGENTS, in order, with the descriptor's name, display name,
\* command and features, whatever the outcomes of the runs.
C9_OneStatusPerDescriptor ==
    returned =>
        /\ Len(agents) = Len(SUPPORTED_AGENTS)
        /\ \A k \in 1..Len(SUPPORTED_AGENTS) : SameDescriptor(agents[k], SUPPORTED_AGENTS[k])

\* every version check failed, each in a different way
C9_Witness ==
    /\ returned
    /\ ~mockMode
    /\ Len(probed) = 2
    /\ probed[1].check.status = "timeout"
    /\ probed[2].check.status = "spawn"
    /\ \A k \in 1..Len(agents) : ~agents[k].isAvailable

Failed(run) == run.status \in FailureKinds

\* str is digits, a dot, digits, a dot, digits
IsSemver(str) ==
    \E i, j \in 1..Len(str) :
        /\ 1 < i /\ i + 1 < j /\ j < Len(str)
        /\ \A k \in 1..Len(str) : IF k \in {i, j} THEN str[k] = "." ELSE str[k] \in Digits

\* the places <<from, to>> of output that hold a major.minor.patch substring
Semvers(output) ==
    {place \in (1..Len(output)) \X (1..Len(output)) :
        place[1] <= place[2] /\ IsSemver(SubSeq(output, place[1], place[2]))}

\* the leftmost major.minor.patch substring of output, taken as long as it goes
FirstSemver(output) ==
    LET first == CHOOSE p \in Semvers(output) :
                    \A q \in Semvers(output) :
                        p[1] < q[1] \/ (p[1] = q[1] /\ p[2] >= q[2])
    IN  SubSeq(output, first[1], first[2])

\* the text of the version run of descriptor k as executeCommand delivers it
Delivered(k) == trim(probed[k].version.out)

\* C25 as stated: for an agent whose version run succeeds the version is the
\* first major.minor.patch substring of the output, and "Unknown" when the
\* output holds none.
C25_UnknownWithoutSemver ==
    \A k \in 1..Len(agents) :
        probed[k].version.status = "ok" =>
            agents[k].version = IF Semvers(Delivered(k)) # {}
                                THEN FirstSemver(Delivered(k))
                                ELSE UnknownVersion

\* C25 amended: for an agent whose version run succeeds the version is the
\* first major.minor.patch substring of the output, and the first line of the
\* output when it holds none; the version is "Unknown" when the tool is not
\* found or its version run fails.
C25_FirstLineWithoutSemver ==
    \A k \in 1..Len(agents) :
        /\ probed[k].version.status = "ok" =>
              agents[k].version =
                  IF Semvers(Delivered(k)) # {}
                  THEN FirstSemver(Delivered(k))
                  ELSE LET breaks == {b \in 1..Len(Delivered(k)) : Delivered(k)[b] = "\n"}
                       IN  SubSeq(Delivered(k), 1,
                                  CHOOSE n \in 0..Len(Delivered(k)) :
                                      /\ \A b \in breaks : n < b
                                      /\ n = Len(Delivered(k)) \/ n + 1 \in breaks)
        /\ (Failed(probed[k].check) \/ Failed(probed[k].version))
              => agents[k].version = UnknownVersion

\* one tool printed a version, the other two lines without one
C25_Witness ==
    /\ returned /\ ~mockMode /\ Len(agents) = 2
    /\ probed[1].version.status = "ok" /\ Semvers(Delivered(1)) # {}
    /\ agents[1].version = <<"1", ".", "2", ".", "3">>
    /\ probed[2].version.status = "ok" /\ Semvers(Delivered(2)) = {}
    /\ agents[2].version = <<"o", "k">>

\* C10 as stated: a failure of any of the three runs of a descriptor leaves
\* its status unavailable and unauthenticated.
C10_AnyFailureUnavailable ==
    \A k \in 1..Len(agents) :
        (Failed(probed[k].check) \/ Failed(probed[k].version) \/ Failed(probed[k].auth))
            => ~agents[k].isAvailable /\ ~agents[k].isAuthenticated

\* C10 amended: a failed version check leaves the status unavailable,
\* unauthenticated and of version Unknown, with no further run; a failed second
\* version run leaves it available with version Unknown; a failed
\* authentication run leaves it available and unauthenticated; and a status
\* already computed is not altered by the runs of the descriptors after it.
C10_FailurePerRun ==
    /\ [](\A k \in 1..Len(agents) :
            /\ Failed(probed[k].check)
                  => /\ ~agents[k].isAvailable /\ ~agents[k].isAuthenticated
                     /\ agents[k].version = UnknownVersion
                     /\ probed[k].version = NotRun /\ probed[k].auth = NotRun
            /\ Failed(probed[k].version)
                  => agents[k].isAvailable /\ agents[k].version = UnknownVersion
            /\ Failed(probed[k].auth)
                  => agents[k].isAvailable /\ ~agents[k].isAuthenticated
            /\ SameDescriptor(agents[k], SUPPORTED_AGENTS[k]))
    /\ [][\A k \in 1..Len(agents) :
            agents' # <<>> => (Len(agents') >= k /\ agents'[k] = agents[k])]_vars

\* the first tool fails its check, the second is found and logged in
C10_Witness ==
    /\ returned
    /\ Len(agents) = 2
    /\ Failed(probed[1].check) /\ ~agents[1].isAvailable
    /\ probed[2].check.status = "ok" /\ probed[2].version.status = "ok"
    /\ probed[2].auth.status = "ok"
    /\ agents[2].isAvailable /\ agents[2].isAuthenticated
    /\ agents[2].version = <<"1", ".", "2", ".", "3">>

\* C17: a switchAgent call for an agent of the snapshot that is available but
\* not authenticated ends by selecting that agent, firing the
\* selection-changed event and returning true.  (Only such calls reach the
\* prompt, so the calls that resume are the calls of the claim.)
C17_UnauthenticatedSwitchSucceeds ==
    last.op = "switchAgent.resume"
        => /\ last.ret = "true"
           /\ selectedAgent # <<>> /\ selectedAgent[1].name = last.who
           /\ fired = <<"onAgentChanged">>

\* the agent the preference rule picks in a snapshot
Preferred(snapshot) ==
    LET both == {k \in 1..Len(snapshot) :
                    snapshot[k].isAvailable /\ snapshot[k].isAuthenticated}
        avail == {k \in 1..Len(snapshot) : snapshot[k].isAvailable}
        First(S) == CHOOSE k \in S : \A j \in S : k <= j
    IN  IF both # {} THEN <<snapshot[First(both)]>>
        ELSE IF avail # {} THEN <<snapshot[First(avail)]>>
        ELSE <<>>

\* C18: when initializeAgents (or refreshAgents, which calls it) completes,
\* whatever the selection was before, the selected agent is the first agent
\* of the new snapshot that is available and authenticated, else the first
\* available one, else null, and the events fired are one detection-refreshed
\* followed by one selection-changed, also when the selection is the same.
C18_RefreshReselects ==
    [][last'.op = "initializeAgents.resume"
          => /\ selectedAgent' = Preferred(availableAgents')
             /\ fired' = <<"onAgentsRefreshed", "onAgentChanged">>]_vars

\* a refresh completed while a switchAgent call waited at its prompt, and
\* selected the first agent of its snapshot, which is available but not
\* logged in, as no agent of the snapshot is both
C18_Witness ==
    /\ last.op = "initializeAgents.resume"
    /\ Len(availableAgents) = 2
    /\ availableAgents[1].isAvailable /\ ~availableAgents[1].isAuthenticated
    /\ availableAgents[2].isAvailable /\ ~availableAgents[2].isAuthenticated
    /\ selectedAgent = <<availableAgents[1]>>
    /\ fired = <<"onAgentsRefreshed", "onAgentChanged">>
    /\ pendingSwitch # <<>>

\* C19: every result with success = false has a non-empty error text, and
\* two failures of different causes (spawn failure, exit, timeout,
\* cancellation) have different error texts.
C19_FailureTextTellsCause ==
    \A i \in Invocations : \A r \in Elements(result[i]) :
        ~r.success
            => /\ r.error # <<>>
               /\ \A j \in Invocations : \A q \in Elements(result[j]) :
                     (~q.success /\ firstEvent[i] # firstEvent[j]) => r.error # q.error

\* C28: in every execution result success is true if and only if exitCode is
\* 0; in particular the result of a child that a signal ended, as after
\* killAllProcesses, has an exitCode other than 0.
C28_SuccessIffExitCodeZero ==
    \A i \in Invocations : \A r \in Elements(result[i]) : r.success <=> (r.exitCode = 0)

(***************************************************************************)
(* Properties of the ProjectAnalyzer                                       *)
(***************************************************************************)
\* the handler that ran in this step is analyzeProject(p)
Called(p) == last'.op = "analyzeProject" /\ last'.who = p

\* the handler that ran in this step stored a finished analysis of p
Stored(p) == last'.op = "analyzeProjectResume" /\ last'.who = p /\ last'.ret = "returns"

\* an object is cached for p and its expiry has not been reached
WithinPeriod(p) == cache[p] # <<>> /\ cacheExpiry[p] # <<>> /\ now < cacheExpiry[p][1]

\* C11: per workspace path, a call made before the expiry of the stored
\* analysis returns the very object that is cached and starts no
\* recomputation; a call made at or after the expiry, or after clearCache,
\* starts a recomputation; a finished recomputation replaces the cached
\* object by a new one and sets the expiry to 5 minutes after the moment it
\* is stored; and nothing but the store of a path or clearCache changes the
\* entry of that path.
C11_CachePerPath ==
    [][\A p \in Paths :
         /\ (Called(p) /\ WithinPeriod(p))
               => /\ returnedContext' = cache[p]
                  /\ UNCHANGED <<cache, cacheExpiry, analysing, allocated>>
         /\ (Called(p) /\ ~WithinPeriod(p))
               => /\ analysing'[p] = analysing[p] + 1
                  /\ returnedContext' = <<>>
         /\ Stored(p)
               => /\ cache'[p] = returnedContext'
                  /\ returnedContext'[1].id > allocated
                  /\ Returns(returnedContext'[1].value) = performAnalysis(workspace[p])
                  /\ cacheExpiry'[p] = <<now' + 5 * 60 * 1000>>
         /\ last'.op = "clearCache" => ~WithinPeriod(p)'
         /\ (~Stored(p) /\ last'.op # "clearCache")
               => (cache'[p] = cache[p] /\ cacheExpiry'[p] = cacheExpiry[p])]_vars

\* a second object was stored and a later call, past the first period, returned it
C11_Witness ==
    /\ last.op = "analyzeProject" /\ last.ret = "cached"
    /\ returnedContext = cache[last.who]
    /\ returnedContext[1].id >= 2
    /\ now > CACHE_DURATION

\* C23: under any interleaving of analyzeProject calls, every context
\* returned for a path is the whole result of one analysis of that path, and
\* the cached object of a path and its expiry are present together or absent
\* together, so a call that finds a valid expiry finds an object.
C23_WholeResultAndPairedEntry ==
    /\ \A p \in Paths : (cache[p] = <<>>) <=> (cacheExpiry[p] = <<>>)
    /\ (last.op = "analyzeProject" /\ last.ret = "cached") => returnedContext # <<>>
    /\ last.op \in {"analyzeProject", "analyzeProjectResume"} =>
          \A object \in {returnedContext[k] : k \in DOMAIN returnedContext} :
              /\ Returns(object.value) = performAnalysis(workspace[last.who])
              /\ object.id \in 1..allocated

\* a recomputation of a path returned its context, the second stored for that
\* path, while another recomputation of the same path was still running
C23_Witness ==
    /\ last.op = "analyzeProjectResume" /\ last.ret = "returns"
    /\ analysing[last.who] > 0
    /\ returnedContext # <<>> /\ returnedContext[1].id >= 2
    /\ cache[last.who] = returnedContext

\* C12: whenever the workspace root exists, a recomputation started by
\* analyzeProject ends by returning a context and never by throwing, whatever
\* the state of the manifest and config files under the root.
C12_ReturnsWhenRootExists ==
    \A p \in Paths :
        (last.op = "analyzeProjectResume" /\ last.who = p /\ workspace[p].root)
            => (last.ret = "returns" /\ returnedContext # <<>>)

\* the number of dependencies the manifest of p declares
Declared(p) ==
    IF workspace[p].packageJson = <<>> THEN 0
    ELSE Len(workspace[p].packageJson[1].dependencies)
         + Len(workspace[p].packageJson[1].devDependencies)

\* C20: every context analyzeProject produces has at most 20 dependencies
\* and at most 50 structure entries, whatever the manifest declares and the
\* root lists; the objects kept in the cache are such contexts.
C20_ListsAreCapped ==
    /\ \A o \in Elements(returnedContext) :
          Len(o.value.dependencies) <= 20 /\ Len(o.value.projectStructure) <= 50
    /\ \A p \in Paths : \A o \in Elements(cache[p]) :
          Len(o.value.dependencies) <= 20 /\ Len(o.value.projectStructure) <= 50

\* a context was produced from a manifest declaring more than 20 dependencies
\* under a root listing more than 50 entries, and both lists are full
C20_Witness ==
    /\ last.op = "analyzeProjectResume" /\ last.ret = "returns"
    /\ Declared("w1") > 20
    /\ Len(workspace["w1"].entries) > 50
    /\ Len(returnedContext[1].value.dependencies) = 20
    /\ Len(returnedContext[1].value.projectStructure) = 50

\* the paths of the list that exist, in the order of the list
ExistingFiles == SelectSeq(args.files, LAMBDA f : args.disk[f].exists)

\* the disk that holds f as args.disk does and nothing else
OnlyFile(f) == [q \in ImportantPaths |-> IF q = f THEN args.disk[f] ELSE MissingFile]

\* C13: analyzeImportantFiles never throws; its result has, in the order of
\* the input list, no entry for a path that does not exist and one entry for
\* each listed path that exists: the error placeholder when stat fails or the
\* read of a file of at most 10240 bytes fails, the too-large placeholder
\* without the file's content when the size exceeds 10240, the full analysis
\* otherwise; and each entry is the one the path gets when it is analysed
\* alone with every other path missing.
C13_OneEntryPerExistingFile ==
    \A r \in Elements(returnValue) :
      args.method = "analyzeImportantFiles" =>
        /\ ~r.threw
        /\ Len(r.value[1]) = Len(ExistingFiles)
        /\ \A k \in 1..Len(ExistingFiles) :
              LET f == ExistingFiles[k]
                  file == args.disk[f]
                  entry == r.value[1][k]
                  failed == file.statError # <<>>
                            \/ (file.size <= 10240 /\ file.readError # <<>>)
              IN  /\ entry.path = f
                  /\ failed => entry.summary = <<"Error reading file">>
                  /\ (~failed /\ file.size > 10240)
                        => /\ entry.summary = <<"File too large for analysis">>
                           /\ entry.content[1] = "[File too large:"
                           /\ entry.size = file.size
                  /\ (~failed /\ file.size <= 10240)
                        => /\ entry.content = file.content
                           /\ entry.size = file.size
                           /\ entry.summary = generateFileSummary(file.content, f)
                  /\ <<entry>> = analyzeImportantFiles(<<f>>, OnlyFile(f))

\* the list holds a missing path and then a path whose stat fails: the first
\* is skipped and the second gets the error placeholder
C13_Witness ==
    /\ args.method = "analyzeImportantFiles"
    /\ returnValue # <<>>
    /\ Len(args.files) = 2
    /\ ~args.disk[args.files[1]].exists
    /\ args.disk[args.files[2]].statError # <<>>
    /\ Len(returnValue[1].value[1]) = 1
    /\ returnValue[1].value[1][1].path = args.files[2]
    /\ returnValue[1].value[1][1].summary = <<"Error reading file">>

(***************************************************************************)
(* Properties of the PromptBuilder and of the CommandBuilder               *)
(***************************************************************************)
\* the value of the field a placeholder names, or the fallback text of the field
FieldText(context, placeholder) ==
    LET OrElse(value, fallback) == IF value = <<>> THEN fallback ELSE value
    IN
    CASE placeholder = "{projectSummary}" ->
            OrElse(context.projectSummary, <<Lit("No project context available", 28)>>)
      [] placeholder = "{featureContent}" ->
            OrElse(context.featureContent, <<Lit("No feature content provided", 27)>>)
      [] placeholder = "{implementationContext}" ->
            OrElse(context.implementationContext,
                   <<Lit("No implementation context provided", 34)>>)
      [] placeholder = "{fileContent}" ->
            OrElse(context.fileContent, <<Lit("No file content provided", 24)>>)
      [] placeholder = "{filePath}" ->
            OrElse(context.filePath, <<Lit("No file path provided", 21)>>)
      [] placeholder = "{importantFilesAnalysis}" ->
            OrElse(context.importantFilesAnalysis, <<Lit("No important files specified", 28)>>)

\* the template with each of its placeholders replaced by the text of its field
RECURSIVE Filled(_, _)
Filled(template, context) ==
    IF template = <<>> THEN <<>>
    ELSE (IF Head(template).s \in Placeholders
          THEN FieldText(context, Head(template).s)
          ELSE <<Head(template)>>)
         \o Filled(Tail(template), context)

\* C14: for every template of the table and every context, buildPrompt
\* returns the template with each of its own placeholders replaced by the
\* value of its field (the fallback text when the value is absent), the
\* values copied verbatim, also when a value holds placeholder text.
C14_OwnPlaceholdersReplaced ==
    \A prompt \in Elements(returnValue) :
        args.method = "buildPrompt" => prompt = Filled(args.template, args.context)

\* the command the call has put together from its arguments
ComposedCommand ==
    LET operation == CASE args.method = "buildQuestionnaireCommand" -> "questionnaire"
                       [] args.method = "buildImplementationCommand" -> "implementation"
                       [] args.method = "buildCodeGenerationCommand" -> "codegen"
                       [] args.method = "buildFileAnalysisCommand" -> "analysis"
        analysis == args.method = "buildFileAnalysisCommand"
        promptContext ==
            [projectSummary |-> args.projectSummary,
             featureContent |-> IF analysis THEN <<>> ELSE args.content,
             implementationContext |-> IF args.method = "buildCodeGenerationCommand"
                                       THEN args.implementationContext ELSE <<>>,
             fileContent |-> IF analysis THEN args.content ELSE <<>>,
             filePath |-> IF analysis THEN args.filePath ELSE <<>>,
             importantFilesAnalysis |-> <<>>]
        prompt == buildPrompt(getTemplate(operation, args.agent)[1],
                              truncateContext(promptContext, 6000))
    IN  IF args.agent = "claude-code"
        THEN ClaudeCodeCommand(args.platform, args.filePath, prompt, operation)
        ELSE GeminiCLICommand(args.platform, args.filePath, prompt, operation)

\* C15: a call of one of the four build...Command methods either throws or
\* returns a command of at most 8000 characters, and the command it returns
\* is the whole command it put together, not a shortened one.
C15_CommandFitsOrThrows ==
    \A r \in Elements(returnValue) :
        args.method \in {"buildQuestionnaireCommand", "buildImplementationCommand",
                           "buildCodeGenerationCommand", "buildFileAnalysisCommand"}
            => \/ r.threw
               \/ /\ length(r.value[1]) <= 8000
                  /\ r.value[1] = ComposedCommand

\* a call with a feature text over its share returned a command that fits, and
\* the command holds the truncation marker
C15_Witness ==
    /\ args.method \in {"buildQuestionnaireCommand", "buildImplementationCommand",
                        "buildCodeGenerationCommand"}
    /\ returnValue # <<>>
    /\ ~returnValue[1].threw
    /\ length(args.content) > 2000
    /\ \E k \in 1..Len(returnValue[1].value[1]) :
          returnValue[1].value[1][k].s = "\n\n[Content truncated for length...]"
    /\ length(returnValue[1].value[1]) > 2000
    /\ length(returnValue[1].value[1]) <= 8000

\* the characters of a string, one by one
RECURSIVE CharactersOf(_)
CharactersOf(str) ==
    IF str = <<>> THEN <<>>
    ELSE LET run == Head(str)
             unit == CASE run.s = "'\"'\"'" -> <<"'", "\"", "'", "\"", "'">>
                       [] run.s = "\\'"     -> <<"\\", "'">>
                       [] OTHER             -> <<run.s>>
         IN  IF run.n = 0 THEN CharactersOf(Tail(str))
             ELSE unit \o CharactersOf(<<[run EXCEPT !.n = @ - 1]>> \o Tail(str))

\* the quoting convention undone: what is between two apostrophes and what is
\* between two double quotes is taken literally, the segments are concatenated
RECURSIVE Unquote(_, _)
Unquote(chars, mode) ==
    IF chars = <<>> THEN <<>>
    ELSE LET c == Head(chars)
         IN  CASE mode = "none" /\ c = "'"    -> Unquote(Tail(chars), "single")
               [] mode = "none" /\ c = "\""   -> Unquote(Tail(chars), "double")
               [] mode = "single" /\ c = "'"  -> Unquote(Tail(chars), "none")
               [] mode = "double" /\ c = "\"" -> Unquote(Tail(chars), "none")
               [] OTHER                       -> <<c>> \o Unquote(Tail(chars), mode)

\* C16: for every argument that contains an apostrophe, undoing the quoting
\* convention on escapeUnixArgument(arg) gives back arg, character by character.
C16_EscapeRoundTrip ==
    \A escaped \in Elements(returnValue) :
        (args.method = "escapeUnixArgument" /\ includesChar(args.arg, "'"))
            => Unquote(CharactersOf(escaped), "none") = CharactersOf(args.arg)

\* what a POSIX shell reads in the characters of one argument: a character
\* between apostrophes is literal; between double quotes "$" starts an
\* expansion and a backslash makes the next character literal; outside quotes
\* a backslash makes the next character literal, a space ends the word, ";"
\* ends the command and "$" starts an expansion.  A character read with a
\* meaning of its own is written "<c>".
RECURSIVE ShellRead(_, _)
ShellRead(chars, mode) ==
    IF chars = <<>> THEN <<>>
    ELSE LET c == Head(chars)
             rest == Tail(chars)
         IN  CASE mode = "single" /\ c = "'"  -> ShellRead(rest, "none")
               [] mode = "single" /\ c # "'"  -> <<c>> \o ShellRead(rest, "single")
               [] mode = "double" /\ c = "\"" -> ShellRead(rest, "none")
               [] mode = "none" /\ c = "'"    -> ShellRead(rest, "single")
               [] mode = "none" /\ c = "\""   -> ShellRead(rest, "double")
               [] mode = "none" /\ c \in {" ", ";"} -> <<"<" \o c \o ">">> \o ShellRead(rest, mode)
               [] mode # "single" /\ c = "$"  -> <<"<$>">> \o ShellRead(rest, mode)
               [] mode # "single" /\ c = "\\" /\ rest # <<>>
                                              -> <<Head(rest)>> \o ShellRead(Tail(rest), mode)
               [] OTHER                       -> <<c>> \o ShellRead(rest, mode)

\* C29: on a POSIX target the shell reads escapeUnixArgument(arg) as one
\* literal word equal to arg, for every argument over an alphabet with the
\* shell metacharacters, also when arg holds no space, quote or backslash.
C29_OneLiteralWord ==
    \A escaped \in Elements(returnValue) :
        args.method = "escapeUnixArgument"
            => ShellRead(CharactersOf(escaped), "none") = CharactersOf(args.arg)

\* an argument with an apostrophe, a backslash and a double quote was escaped
C16_Witness ==
    /\ args.method = "escapeUnixArgument"
    /\ returnValue # <<>>
    /\ includesChar(args.arg, "'")
    /\ includesChar(args.arg, "\\")
    /\ includesChar(args.arg, "\"")
    /\ \E k \in 1..Len(returnValue[1]) : returnValue[1][k].s = "'\"'\"'"

(***************************************************************************)
(* Properties of the CLICommands                                           *)
(***************************************************************************)
\* the list of important files generateQuestions and generatePlan go on with
ImportantFiles ==
    IF Len(args.extractedFiles) = 0 THEN args.pickedFiles ELSE args.extractedFiles

\* C21: when generateQuestions or generatePlan hands a command to the
\* execution service after analyzeImportantFiles has analysed a non-empty
\* list of important files, the prompt inside the command does not hold the
\* fallback text 'No important files specified' in the place of the
\* importantFilesAnalysis placeholder.
C21_PromptHoldsFilesAnalysis ==
    \A r \in Elements(returnValue) :
        (/\ args.method \in {"generateQuestions", "generatePlan"}
         /\ r.value # <<>>
         /\ Len(ImportantFiles) > 0
         /\ Len(analyzeImportantFiles(ImportantFiles, args.disk)) > 0)
            => \A k \in 1..Len(r.value[1]) :
                  r.value[1][k].s # "No important files specified"

(***************************************************************************)
(* Properties of the FileService and of the FeatureTreeProvider            *)
(***************************************************************************)
\* C22: createFeatureFile never overwrites an existing feature file: no step
\* of a createFeatureFile call, run alone or beside another call, changes the
\* content of a file that exists.
C22_NeverOverwrites ==
    [][\A f \in DOMAIN directory : directory[f] # <<>> => directory'[f] = directory[f]]_vars

\* C26: when refresh fires the tree-changed event, the data of the provider
\* is the listing of the .features directory as it is at that refresh.
C26_EventAfterReload ==
    [][last'.op = "refresh" =>
          data' = SelectSeq(FeatureFiles, LAMBDA f : directory'[f] # <<>>)]_vars

(***************************************************************************)
(* Properties of PromptBuilder.truncateContext                             *)
(***************************************************************************)
\* C24: truncateContext is stable under repetition: truncating the context it
\* returned once more with the same budget gives, field by field, a value of
\* the same length.
C24_TruncationStable ==
    (args.method = "truncateContext" /\ returnValue # <<>>) =>
        LET once == returnValue[1]
            twice == truncateContext(once, args.maxLength)
        IN  \A field \in DOMAIN once : length(twice[field]) = length(once[field])

\* a field was cut, and with its marker it is again longer than its share, so
\* that the second truncation cuts it again
C24_Witness ==
    /\ args.method = "truncateContext" /\ returnValue # <<>>
    /\ args.maxLength = 100
    /\ length(args.context.featureContent) = 2001
    /\ length(returnValue[1].featureContent) = 33 + 35
    /\ length(returnValue[1].projectSummary) = 16 + 35
    /\ truncateContext(returnValue[1], args.maxLength) = returnValue[1]

(***************************************************************************)
(* Properties of CLICommands.runInTerminal                                 *)
(***************************************************************************)
\* the capability of CLIFeature that each operation of the pick list needs
Capability ==
    [questions |-> [label |-> "Generate Questions", feature |-> "questionnaire"],
     plan |-> [label |-> "Generate Plan", feature |-> "planning"],
     code |-> [label |-> "Generate Code", feature |-> "codegen"],
     analysis |-> [label |-> "Analyze File", feature |-> "analysis"]]

\* C30: when runInTerminal shows its pick list, each of the four operations
\* is in the list if and only if the selected agent supports its capability.
C30_OffersSupportedOperations ==
    \A r \in Elements(returnValue) :
        (args.method = "runInTerminal" /\ r.shown) =>
            \A o \in DOMAIN Capability :
                (\E k \in 1..Len(r.operations) : r.operations[k].label = Capability[o].label)
                    <=> includes(args.selectedAgent[1].supportedFeatures, Capability[o].feature)

====
